---- MODULE Spec2Model ----
(***************************************************************************)
(* Model of the traffic-signal core of src/traffic.py: TrafficLight (the   *)
(* per-signal phase state machine and its timing table),                   *)
(* TrafficLightController (registry, density->timing policy, coordination  *)
(* groups and the green-wave override) and TrafficDensityCalculator (the   *)
(* window of vehicle counts, the density, its level and its trend).        *)
(*                                                                         *)
(* Conventions.                                                            *)
(*  - time.time() is the integer variable now; it advances only in Tick,   *)
(*    so every time.time() read inside one method call sees one instant.   *)
(*  - A density is held in hundredths (0.7 is 70); int() truncates toward  *)
(*    zero as Python's does.                                               *)
(*  - A Python dict is an object: timing_dicts is the heap of timing       *)
(*    dicts and TrafficLight.timing is a reference (a key) into it, so two *)
(*    lights built from one dict share it, as in the source. The dict the  *)
(*    configuration holds is at "config"; the dict TrafficLight.__init__   *)
(*    builds for the light id when it is given none is at id.              *)
(*  - A density computed by TrafficDensityCalculator is a rational; it is  *)
(*    held as an integer number of units, One(calc) units making 1.0, the  *)
(*    unit being fine enough for every mean of a window over the           *)
(*    threshold. The source computes in binary floating point: a           *)
(*    comparison of a computed value with a threshold is the exact one     *)
(*    except where the exact value equals the threshold, and there the     *)
(*    rounded value may fall on either side.                               *)
(***************************************************************************)
EXTENDS Integers, Sequences, FiniteSets, TLC

VARIABLES
    now,                 \* time.time()
    timing_dicts,        \* heap of timing dicts: reference -> [phase -> seconds]
    traffic_lights,      \* TrafficLightController.traffic_lights: id -> TrafficLight
    traffic_densities,   \* TrafficLightController.traffic_densities: id -> density
    coordination_groups, \* TrafficLightController.coordination_groups
    ret,                 \* the last call: its name, arguments and returned value
    calculator,          \* a TrafficDensityCalculator
    result,              \* the last call on the calculator and the value it returned
    threads,             \* threads that call the controller: position and locals
    running,             \* CommunicationManager.running
    server_socket,       \* CommunicationManager.server_socket
    client_connections,  \* CommunicationManager.client_connections: id -> socket
    message_queue,       \* CommunicationManager.message_queue
    connections,         \* the client sockets: state, bytes in flight, bytes written
    handlers,            \* the _handle_client threads: position and locals
    acceptor,            \* the _accept_connections thread: position
    dispatcher,          \* the _process_messages thread: position and locals
    caller               \* the thread that calls the manager: method, position, locals

\* the variables of the communication manager
serverVars == <<running, server_socket, client_connections, message_queue, connections,
                handlers, acceptor, dispatcher, caller>>

\* the variables of the signals, the controller and the calculator
signalVars == <<now, timing_dicts, traffic_lights, traffic_densities, coordination_groups,
                ret, calculator, result, threads>>

vars == <<now, timing_dicts, traffic_lights, traffic_densities, coordination_groups, ret,
          calculator, result, threads, running, server_socket, client_connections,
          message_queue, connections, handlers, acceptor, dispatcher, caller>>

----------------------------------------------------------------------------
(* Bounds of the model                                                     *)

MaxTime == 24
MaxTimingTime == 12
MaxHist == 2
MaxTimingHist == 2
MaxSharedHist == 3
MaxGroups == 1
MaxUpdates == 6
MaxPolicyHist == 4
MaxGroupCalls == 2
MaxCalls == 2
MaxStartCalls == 1
MaxSendCalls == 1

\* ids the callers use; "L9" is never registered by the model's callers
LightIds == {"L1", "L2"}
UnknownIds == {"L9"}
\* the lights the callers call force_phase on
ForcedIds == {"L1"}
\* the lights the callers of NextTiming call adjust_timing on
AdjustedIds == {"L1"}
\* the four lights of the end-to-end scenario, in the order of their group
E2EGroup == <<"L1", "L2", "L3", "L4">>
E2EIds == {E2EGroup[i] : i \in 1..Len(E2EGroup)}
\* the densities of the end-to-end scenario: 0.9 for L1, 0.1 for the others
E2EDensity(id) == IF id = "L1" THEN 90 ELSE 10
\* phase arguments the callers pass; "blue" is not a phase
Phases == {"red", "yellow", "green"}
PhaseArgs == Phases \cup {"blue"}
\* seconds passed to adjust_timing
Seconds == {0, 2, 4}
SharedSeconds == {0, 4}
\* densities passed to update_traffic_density, in hundredths
Densities == {70, 85, 90}
\* the 'initial_timing' dict of the configuration: the built-in one, or one
\* read from a configuration file
ConfigTimings == {[green |-> 30, yellow |-> 5, red |-> 30],
                  [green |-> 12, yellow |-> 2, red |-> 12]}
\* lists of ids passed to create_coordination_group
GroupLists == {<<"L1", "L2">>, <<"L2">>, <<"L1", "L9">>}
TickSteps == {12}
\* the lights and the lists of the callers of NextGroups: two lists share L2
GroupedIds == {"L1", "L2", "L3"}
SharingGroupLists == {<<"L1", "L2">>, <<"L2", "L3">>, <<"L2">>}
\* densities passed to update_traffic_density by the callers of NextPolicy, in
\* hundredths; -2.0 is outside [0, 1]
PolicyDensities == {0, 50, 85, 100, -200}
ThreadIds == {"L1", "L2", "L3"}
ThreadDensities == {50, 85}
Conns == {1, 2}
Callers == {1, 2}
Operators == {1}
Senders == {2}
\* the (window_size, congestion_threshold) a TrafficDensityCalculator is built
\* with: a window of three, with a threshold of 15 or of 100
CalculatorConfigs == {<<3, 15>>, <<3, 100>>}
\* the vehicle counts passed to update, for each kind of calculator; -5 is
\* not a count of vehicles
VehicleCounts(calc) ==
    IF calc.congestion_threshold = 15 THEN {5, 10, 15, 100}
    ELSE {29, 30, 70, -5}

----------------------------------------------------------------------------
(* Program constants                                                       *)

DefaultGreen == 30
DefaultYellow == 5
DefaultRed == 30
MinYellow == 3
base_green_time == 30
max_green_time == 60
min_green_time == 15
HighDensity == 70
AboutToTurn == 5
DefaultWindowSize == 10
DefaultCongestionThreshold == 15
DensityHistoryMaxLen == 100
RecentLen == 5

None == "None"

Max(a, b) == IF a >= b THEN a ELSE b
Min(a, b) == IF a <= b THEN a ELSE b

\* Python int() of the rational n/d (d > 0): truncation toward zero
IntDiv(n, d) == IF n >= 0 THEN n \div d ELSE -((-n) \div d)

\* the record of a call: the method, the light, the phase passed (returned, for
\* get_current_phase) and whether the call reported success
Ret(op, id, phase, ok) == [op |-> op, id |-> id, phase |-> phase, ok |-> ok]

----------------------------------------------------------------------------
(* TrafficLight                                                            *)

DefaultTiming == [green |-> DefaultGreen, yellow |-> DefaultYellow, red |-> DefaultRed]

\* the timing dict a light refers to
Timing(light) == timing_dicts[light.timing]

\* TrafficLight.__init__, with self.timing the reference ref
NewLight(ref) ==
    [current_phase |-> "red",
     phase_start_time |-> now,
     timing |-> ref,
     connected_lights |-> <<>>,
     timing_history |-> <<>>]

\* a transition order that goes from green straight to red
NextPhaseSkippingYellow(phase) ==
    IF phase = "green" THEN "red"
    ELSE IF phase = "yellow" THEN "red"
    ELSE "green"

\* transition_to_next_phase: the phase that follows
NextPhase(phase) ==
    IF phase = "green" THEN "yellow"
    ELSE IF phase = "yellow" THEN "red"
    ELSE "green"

\* a check that lets a phase last longer than its duration
PhaseElapsedLate(light) ==
    now - light.phase_start_time > Timing(light)[light.current_phase]

\* get_current_phase: whether the current phase has run out
PhaseElapsed(light) ==
    now - light.phase_start_time >= Timing(light)[light.current_phase]

\* get_current_phase / transition_to_next_phase: the light afterwards
AfterGetCurrentPhase(light) ==
    IF PhaseElapsed(light)
    THEN [light EXCEPT !.current_phase = NextPhase(light.current_phase),
                       !.phase_start_time = now]
    ELSE light

\* a phase check that knows no red
AdjustPhaseOkNoRed(dict, phase) == phase \in DOMAIN dict \ {"red"}

\* adjust_timing: whether the phase is accepted (a key of the timing dict)
AdjustPhaseOk(dict, phase) == phase \in DOMAIN dict

\* a floor applied to every phase
ClampedTimeEveryPhase(phase, new_time) ==
    IF new_time < MinYellow THEN MinYellow ELSE new_time

\* adjust_timing: the value stored
ClampedTime(phase, new_time) ==
    IF phase = "yellow" /\ new_time < MinYellow THEN MinYellow ELSE new_time

\* adjust_timing: the record appended to timing_history
HistoryRecord(dict, phase, new_time) ==
    [timestamp |-> now,
     phase |-> phase,
     old_value |-> dict[phase],
     new_value |-> ClampedTime(phase, new_time)]

\* adjust_timing on the light id, in the state st = [lights, dicts]: the state
\* afterwards (unchanged when the phase is refused)
AfterAdjustTiming(st, id, phase, new_time) ==
    LET ref == st.lights[id].timing
        dict == st.dicts[ref]
    IN  IF ~AdjustPhaseOk(dict, phase) THEN st
        ELSE [lights |-> [st.lights EXCEPT ![id].timing_history =
                              Append(@, HistoryRecord(dict, phase, new_time))],
              dicts |-> [st.dicts EXCEPT ![ref][phase] = ClampedTime(phase, new_time)]]

\* get_time_remaining
TimeRemaining(light) ==
    Max(0, Timing(light)[light.current_phase] - (now - light.phase_start_time))

\* force_phase: whether the phase is accepted
ForcePhaseOk(new_phase) == new_phase \in {"red", "yellow", "green"}

\* a force_phase that leaves a light already in the phase as it is
AfterForcePhaseIfChanged(light, new_phase) ==
    IF light.current_phase = new_phase THEN light
    ELSE [light EXCEPT !.current_phase = new_phase, !.phase_start_time = now]

\* force_phase: the light afterwards
AfterForcePhase(light, new_phase) ==
    [light EXCEPT !.current_phase = new_phase, !.phase_start_time = now]

----------------------------------------------------------------------------
(* TrafficLightController                                                  *)

Registered == DOMAIN traffic_lights

\* a red time that falls with the whole density
NewRedTimeFullDensity(density) ==
    Max(min_green_time, IntDiv(base_green_time * (100 - density), 100))

\* _adjust_timing_based_on_density: the two durations
NewGreenTime(density) ==
    Max(min_green_time,
        Min(max_green_time,
            IntDiv(base_green_time * 100 + (max_green_time - base_green_time) * density, 100)))

NewRedTime(density) ==
    Max(min_green_time, IntDiv(base_green_time * (200 - density), 200))

\* _coordinate_group: self.traffic_densities.get(light_id, 0)
DensityOf(light_id) ==
    IF light_id \in DOMAIN traffic_densities THEN traffic_densities[light_id] ELSE 0

\* a loop that keeps the last light of highest density (>= for >)
RECURSIVE FindMaxDensityLast(_, _, _, _)
FindMaxDensityLast(light_ids, i, max_density, max_density_light) ==
    IF i > Len(light_ids) THEN <<max_density, max_density_light>>
    ELSE IF DensityOf(light_ids[i]) >= max_density
         THEN FindMaxDensityLast(light_ids, i + 1, DensityOf(light_ids[i]), light_ids[i])
         ELSE FindMaxDensityLast(light_ids, i + 1, max_density, max_density_light)

\* _coordinate_group: the loop that finds the light of highest density, from
\* position i on, with the running maximum and its light
RECURSIVE FindMaxDensity(_, _, _, _)
FindMaxDensity(light_ids, i, max_density, max_density_light) ==
    IF i > Len(light_ids) THEN <<max_density, max_density_light>>
    ELSE IF DensityOf(light_ids[i]) > max_density
         THEN FindMaxDensity(light_ids, i + 1, DensityOf(light_ids[i]), light_ids[i])
         ELSE FindMaxDensity(light_ids, i + 1, max_density, max_density_light)

\* max_density starts at -1 (hundredths: -100), max_density_light at None
MaxDensity(light_ids) == FindMaxDensity(light_ids, 1, -100, None)[1]
MaxDensityLight(light_ids) == FindMaxDensity(light_ids, 1, -100, None)[2]

\* an override that does not look at the time remaining
ForcesGreenWhateverRemains(light) ==
    light.current_phase = "red"

\* an override that does not wait for yellow to complete
ForcesGreenFromYellow(light) ==
    IF light.current_phase # "green"
    THEN IF light.current_phase = "red" /\ TimeRemaining(light) < AboutToTurn
         THEN FALSE
         ELSE TRUE
    ELSE FALSE

\* _force_green_wave: whether the starting light is forced to green
ForcesGreen(light) ==
    IF light.current_phase # "green"
    THEN IF light.current_phase = "red" /\ TimeRemaining(light) < AboutToTurn
         THEN FALSE
         ELSE IF light.current_phase = "yellow" THEN FALSE ELSE TRUE
    ELSE FALSE

\* _coordinate_group: whether the group triggers _force_green_wave
TriggersGreenWave(lights, light_ids) ==
    /\ Len(light_ids) >= 2
    /\ MaxDensityLight(light_ids) # None
    /\ lights[MaxDensityLight(light_ids)].current_phase # "green"
    /\ MaxDensity(light_ids) > HighDensity

\* a green wave that turns every light of the group green
AfterCoordinateGroupWave(lights, light_ids) ==
    IF TriggersGreenWave(lights, light_ids) /\ ForcesGreen(lights[MaxDensityLight(light_ids)])
    THEN [id \in DOMAIN lights |->
             IF \E i \in 1..Len(light_ids) : light_ids[i] = id
             THEN AfterForcePhase(lights[id], "green")
             ELSE lights[id]]
    ELSE lights

\* _coordinate_group / _force_green_wave: the lights after one group
AfterCoordinateGroup(lights, light_ids) ==
    IF TriggersGreenWave(lights, light_ids) /\ ForcesGreen(lights[MaxDensityLight(light_ids)])
    THEN [lights EXCEPT ![MaxDensityLight(light_ids)] =
              AfterForcePhase(lights[MaxDensityLight(light_ids)], "green")]
    ELSE lights

\* coordinate_lights: the lights after the groups from position i on
RECURSIVE AfterCoordinate(_, _)
AfterCoordinate(lights, i) ==
    IF i > Len(coordination_groups) THEN lights
    ELSE AfterCoordinate(AfterCoordinateGroup(lights, coordination_groups[i]), i + 1)

----------------------------------------------------------------------------
(* TrafficDensityCalculator                                                *)

RECURSIVE Gcd(_, _)
Gcd(a, b) == IF b = 0 THEN a ELSE Gcd(b, a % b)

\* the least common multiple of 1..n
RECURSIVE LcmUpTo(_)
LcmUpTo(n) ==
    IF n <= 1 THEN 1
    ELSE LET below == LcmUpTo(n - 1) IN (below * n) \div Gcd(below, n)

\* the number of units that make the density 1.0
One(calc) == calc.congestion_threshold * LcmUpTo(calc.window_size)

\* sum(...)
RECURSIVE SumSeq(_)
SumSeq(s) == IF s = <<>> THEN 0 ELSE s[1] + SumSeq(Tail(s))

\* a deque that evicts its newest element
DequeAppendDropNewest(dq, x, maxlen) ==
    IF Len(dq) >= maxlen THEN dq ELSE Append(dq, x)

\* deque(maxlen).append(x): the oldest element is evicted from a full deque
DequeAppend(dq, x, maxlen) ==
    IF maxlen = 0 THEN <<>>
    ELSE IF Len(dq) >= maxlen THEN Append(Tail(dq), x)
    ELSE Append(dq, x)

\* TrafficDensityCalculator.__init__
NewCalculator(window_size, congestion_threshold) ==
    [window_size |-> window_size,
     congestion_threshold |-> congestion_threshold,
     vehicle_counts |-> <<>>,
     density_history |-> <<>>,
     last_update_time |-> now]

\* calculate_density: min(1.0, avg_count / congestion_threshold), in units
CalculateDensity(calc) ==
    IF calc.vehicle_counts = <<>> THEN 0
    ELSE Min(One(calc),
             (SumSeq(calc.vehicle_counts) * One(calc))
                 \div (Len(calc.vehicle_counts) * calc.congestion_threshold))

\* update: the calculator afterwards
AfterUpdate(calc, vehicle_count) ==
    LET appended == [calc EXCEPT !.vehicle_counts =
                        DequeAppend(@, vehicle_count, calc.window_size),
                                 !.last_update_time = now]
    IN  [appended EXCEPT !.density_history =
            DequeAppend(@, CalculateDensity(appended), DensityHistoryMaxLen)]

\* a level whose boundary values belong to the lower bracket
CongestionLevelLowerBracket(calc) ==
    IF 10 * CalculateDensity(calc) <= 3 * One(calc) THEN "low"
    ELSE IF 10 * CalculateDensity(calc) <= 7 * One(calc) THEN "medium"
    ELSE "high"

\* get_congestion_level: density < 0.3, density < 0.7
CongestionLevel(calc) ==
    IF 10 * CalculateDensity(calc) < 3 * One(calc) THEN "low"
    ELSE IF 10 * CalculateDensity(calc) < 7 * One(calc) THEN "medium"
    ELSE "high"

\* get_density_trend: list(self.density_history)[-5:]
Recent(calc) ==
    LET h == calc.density_history
    IN  IF Len(h) <= RecentLen THEN h ELSE SubSeq(h, Len(h) - RecentLen + 1, Len(h))

\* get_density_trend: the sums of the regression, x being 0 .. len(recent) - 1
SumX(y) == SumSeq([i \in 1..Len(y) |-> i - 1])
SumXY(y) == SumSeq([i \in 1..Len(y) |-> (i - 1) * y[i]])
SumXX(y) == SumSeq([i \in 1..Len(y) |-> (i - 1) * (i - 1)])

\* the numerator and the denominator of the slope; the numerator is in units
SlopeNum(y) == Len(y) * SumXY(y) - SumX(y) * SumSeq(y)
SlopeDen(y) == Len(y) * SumXX(y) - SumX(y) * SumX(y)

\* a trend that takes 0.5 for 0.05
TrendOutcomesSteepOnly(calc) ==
    LET y == Recent(calc)
        num == 2 * SlopeNum(y)
        den == One(calc) * SlopeDen(y)
    IN  IF Len(calc.density_history) < 2 THEN {"stable"}
        ELSE IF Len(y) < RecentLen THEN {"stable"}
        ELSE IF den = 0 THEN {"stable"}
        ELSE IF num > den THEN {"increasing"}
        ELSE IF num = den THEN {"increasing", "stable"}
        ELSE IF num < -den THEN {"decreasing"}
        ELSE IF num = -den THEN {"decreasing", "stable"}
        ELSE {"stable"}

\* get_density_trend: the values it can return. slope > 0.05 is
\* 20 * SlopeNum > One * SlopeDen, the denominator being positive; the slope is
\* a rounded quotient of rounded sums, so that an exact slope of 0.05 (-0.05)
\* is computed as 0.05 or as a value next to it
TrendOutcomes(calc) ==
    LET y == Recent(calc)
        num == 20 * SlopeNum(y)
        den == One(calc) * SlopeDen(y)
    IN  IF Len(calc.density_history) < 2 THEN {"stable"}
        ELSE IF Len(y) < RecentLen THEN {"stable"}
        ELSE IF den = 0 THEN {"stable"}
        ELSE IF num > den THEN {"increasing"}
        ELSE IF num = den THEN {"increasing", "stable"}
        ELSE IF num < -den THEN {"decreasing"}
        ELSE IF num = -den THEN {"decreasing", "stable"}
        ELSE {"stable"}

\* the record of a call on the calculator: the method and the value returned
Result(op, value) == [op |-> op, value |-> value]

----------------------------------------------------------------------------
(* Initial state and operations                                            *)

\* ---------------------------------------------------------------------
\* Threads that call the controller (threading.Thread around
\* add_traffic_light and update_traffic_density).  A thread is a record
\* of its position and of the locals of the call it is in.
\* ---------------------------------------------------------------------

\* a thread that has not started yet
NewThread == [pc |-> "start", light |-> None, density |-> None, ok |-> None]

\* ---------------------------------------------------------------------
\* CommunicationManager: sockets, messages and threads.
\*
\* A message is what json.loads gives for the bytes of one message:
\* syntax says whether the bytes are a JSON object, valid JSON of another
\* kind (an array, a number) or not JSON; the other fields are the keys
\* of the object, Absent when the object has no such key, and their values
\* as JSON text.
\* A chunk is what one recv(1024) returns: a sequence of pieces, each a
\* whole message or a fragment of one.
\* ---------------------------------------------------------------------
Absent == "<absent>"

Object(id, type, target) ==
    [syntax |-> "object", id |-> id, type |-> type, target |-> target,
     sender |-> Absent, data |-> Absent, timestamp |-> Absent]

NotAnObject(syntax) ==
    [syntax |-> syntax, id |-> Absent, type |-> Absent, target |-> Absent,
     sender |-> Absent, data |-> Absent, timestamp |-> Absent]

Whole(m) == [message |-> m, part |-> 0]

Fragment(m, n) == [message |-> m, part |-> n]

\* The messages the clients write: the first connection also writes what
\* a client should not
RegisterA == Object("A", "register", Absent)
RegisterB == Object("B", "register", Absent)
CommandFromA == Object("A", "command", "B")
EmptyId == Object("", "register", Absent)
StatusUpdate == Object(Absent, "status_update", Absent)
Garbage == NotAnObject("garbage")
Array == NotAnObject("array")
RegisterScripts(c) ==
    IF c = 1
    THEN {<<StatusUpdate>>, <<Garbage>>, <<Array>>, <<EmptyId>>,
          <<CommandFromA, StatusUpdate>>,
          <<RegisterA, Garbage, StatusUpdate>>, <<RegisterA, Array, StatusUpdate>>}
    ELSE {<<RegisterB>>}
StopScripts(c) == IF c = 1 THEN {<<RegisterA, StatusUpdate>>} ELSE {<<RegisterB>>}
StatusUpdateWith(data) == [StatusUpdate EXCEPT !.data = data]
FramingScripts(c) ==
    IF c = 1 THEN {<<RegisterA, StatusUpdateWith("first"), StatusUpdateWith("second")>>}
    ELSE {<<RegisterB>>}
SendScripts(c) == IF c = 1 THEN {<<RegisterA>>} ELSE {<<RegisterB>>}
SendTargets == {"A"}

\* b"" : what recv returns when the peer has closed
NoData == <<>>

\* json.loads(data.decode('utf-8')): the message when the data are the
\* bytes of exactly one message that is valid JSON, else JSONDecodeError
JSONDecodeError == NotAnObject("JSONDecodeError")

Loads(data) ==
    IF Len(data) = 1 /\ data[1].part = 0 /\ data[1].message.syntax # "garbage"
        THEN data[1].message
        ELSE JSONDecodeError

\* Python's truth value of an id: None and the empty string are false
Truthy(id) == id \notin {None, ""}

\* a socket of a client that has not connected yet; script is what the
\* client is going to write, sent how many of these messages it has written
NewConnection == [state |-> "unused", script |-> <<>>, sent |-> 0, inbound |-> <<>>,
                  peer_closed |-> FALSE, outbound |-> <<>>]

\* a _handle_client thread that has not been spawned yet
NewHandler == [pc |-> "none", client_id |-> None, data |-> NoData]

\* a thread that calls the manager and is in no call; failures counts the
\* errors its call has logged, calls the calls that have returned
NewCaller == [op |-> "none", pc |-> "idle", target |-> None, message |-> None,
              snapshot |-> {}, returned |-> None, failures |-> 0, calls |-> 0]

\* no thread has started
ThreadsInit == threads = [t \in ThreadIds |-> NewThread]

\* CommunicationManager.__init__, with no client connected and no call made
ServerInit ==
    /\ running = FALSE
    /\ server_socket = None
    /\ client_connections = <<>>
    /\ message_queue = <<>>
    /\ connections = [c \in Conns |-> NewConnection]
    /\ handlers = [c \in Conns |-> NewHandler]
    /\ acceptor = <<>>
    /\ dispatcher = <<>>
    /\ caller = [k \in Callers |-> NewCaller]

Init ==
    /\ now = 0
    /\ \E t \in ConfigTimings : timing_dicts = ("config" :> t)
    /\ traffic_lights = <<>>
    /\ traffic_densities = <<>>
    /\ coordination_groups = <<>>
    /\ ret = Ret("init", None, None, TRUE)
    /\ calculator = NewCalculator(DefaultWindowSize, DefaultCongestionThreshold)
    /\ result = Result("init", None)
    /\ ThreadsInit
    /\ ServerInit

\* an add_traffic_light that replaces a light already registered
AddTrafficLightReplacing(id, initial_timing) ==
    /\ initial_timing \in {None} \cup DOMAIN timing_dicts
    /\ timing_dicts' = IF initial_timing = None
                       THEN [r \in DOMAIN timing_dicts \cup {id} |->
                                IF r = id THEN DefaultTiming ELSE timing_dicts[r]]
                       ELSE timing_dicts
    /\ traffic_lights' = [l \in Registered \cup {id} |->
                             IF l = id
                             THEN NewLight(IF initial_timing = None THEN id
                                           ELSE initial_timing)
                             ELSE traffic_lights[l]]
    /\ traffic_densities' = [l \in Registered \cup {id} |->
                                IF l = id THEN 0 ELSE traffic_densities[l]]
    /\ ret' = Ret("add_traffic_light", id, None, TRUE)
    /\ UNCHANGED <<now, coordination_groups>>
    /\ UNCHANGED <<calculator, result, threads, serverVars>>

\* add_traffic_light(id, initial_timing): initial_timing is None or a
\* reference to a dict
AddTrafficLight(id, initial_timing) ==
    /\ initial_timing \in {None} \cup DOMAIN timing_dicts
    /\ IF id \in Registered
       THEN UNCHANGED <<timing_dicts, traffic_lights, traffic_densities>>
       ELSE /\ timing_dicts' = IF initial_timing = None
                               THEN (id :> DefaultTiming) @@ timing_dicts
                               ELSE timing_dicts
            /\ traffic_lights' = (id :> NewLight(IF initial_timing = None THEN id
                                                 ELSE initial_timing)) @@ traffic_lights
            /\ traffic_densities' = (id :> 0) @@ traffic_densities
    /\ ret' = Ret("add_traffic_light", id, None, TRUE)
    /\ UNCHANGED <<now, coordination_groups>>
    /\ UNCHANGED <<calculator, result, threads, serverVars>>

\* TrafficLight.get_current_phase
GetCurrentPhase(id) ==
    /\ id \in Registered
    /\ traffic_lights' = [traffic_lights EXCEPT ![id] = AfterGetCurrentPhase(@)]
    /\ ret' = Ret("get_current_phase", id, traffic_lights'[id].current_phase, TRUE)
    /\ UNCHANGED <<now, timing_dicts, traffic_densities, coordination_groups>>
    /\ UNCHANGED <<calculator, result, threads, serverVars>>

\* TrafficLight.adjust_timing
AdjustTiming(id, phase, new_time) ==
    /\ id \in Registered
    /\ LET st == AfterAdjustTiming([lights |-> traffic_lights, dicts |-> timing_dicts],
                                   id, phase, new_time)
       IN  /\ traffic_lights' = st.lights
           /\ timing_dicts' = st.dicts
    /\ ret' = Ret("adjust_timing", id, phase,
                  AdjustPhaseOk(Timing(traffic_lights[id]), phase))
    /\ UNCHANGED <<now, traffic_densities, coordination_groups>>
    /\ UNCHANGED <<calculator, result, threads, serverVars>>

\* TrafficLight.force_phase
ForcePhase(id, new_phase) ==
    /\ id \in Registered
    /\ traffic_lights' = IF ForcePhaseOk(new_phase)
                         THEN [traffic_lights EXCEPT ![id] = AfterForcePhase(@, new_phase)]
                         ELSE traffic_lights
    /\ ret' = Ret("force_phase", id, new_phase, ForcePhaseOk(new_phase))
    /\ UNCHANGED <<now, timing_dicts, traffic_densities, coordination_groups>>
    /\ UNCHANGED <<calculator, result, threads, serverVars>>

\* an update_traffic_density that stores the density before it looks the light up
UpdateTrafficDensityStoringFirst(light_id, density) ==
    /\ IF light_id \notin Registered
       THEN /\ ret' = Ret("update_traffic_density", light_id, None, FALSE)
            /\ traffic_densities' = (light_id :> density) @@ traffic_densities
            /\ UNCHANGED <<timing_dicts, traffic_lights>>
       ELSE /\ traffic_densities' = [traffic_densities EXCEPT ![light_id] = density]
            /\ LET st0 == [lights |-> traffic_lights, dicts |-> timing_dicts]
                   st1 == AfterAdjustTiming(st0, light_id, "green", NewGreenTime(density))
                   st2 == AfterAdjustTiming(st1, light_id, "red", NewRedTime(density))
               IN  /\ traffic_lights' = st2.lights
                   /\ timing_dicts' = st2.dicts
            /\ ret' = Ret("update_traffic_density", light_id, None, TRUE)
    /\ UNCHANGED <<now, coordination_groups>>
    /\ UNCHANGED <<calculator, result, threads, serverVars>>

\* update_traffic_density, with _adjust_timing_based_on_density
UpdateTrafficDensity(light_id, density) ==
    /\ IF light_id \notin Registered
       THEN /\ ret' = Ret("update_traffic_density", light_id, None, FALSE)
            /\ UNCHANGED <<timing_dicts, traffic_lights, traffic_densities>>
       ELSE /\ traffic_densities' = [traffic_densities EXCEPT ![light_id] = density]
            /\ LET st0 == [lights |-> traffic_lights, dicts |-> timing_dicts]
                   st1 == AfterAdjustTiming(st0, light_id, "green", NewGreenTime(density))
                   st2 == AfterAdjustTiming(st1, light_id, "red", NewRedTime(density))
               IN  /\ traffic_lights' = st2.lights
                   /\ timing_dicts' = st2.dicts
            /\ ret' = Ret("update_traffic_density", light_id, None, TRUE)
    /\ UNCHANGED <<now, coordination_groups>>
    /\ UNCHANGED <<calculator, result, threads, serverVars>>

\* a create_coordination_group that connects the lights as it validates them
CreateCoordinationGroupConnectingFirst(light_ids) ==
    /\ traffic_lights' =
           [id \in Registered |->
               IF \E i \in 1..Len(light_ids) :
                      /\ light_ids[i] = id
                      /\ \A j \in 1..i : light_ids[j] \in Registered
               THEN [traffic_lights[id] EXCEPT !.connected_lights =
                        SelectSeq(light_ids, LAMBDA other : other # id)]
               ELSE traffic_lights[id]]
    /\ IF \E i \in 1..Len(light_ids) : light_ids[i] \notin Registered
       THEN /\ ret' = Ret("create_coordination_group", None, None, FALSE)
            /\ UNCHANGED coordination_groups
       ELSE /\ coordination_groups' = Append(coordination_groups, light_ids)
            /\ ret' = Ret("create_coordination_group", None, None, TRUE)
    /\ UNCHANGED <<now, timing_dicts, traffic_densities>>
    /\ UNCHANGED <<calculator, result, threads, serverVars>>

\* create_coordination_group
CreateCoordinationGroup(light_ids) ==
    /\ IF \E i \in 1..Len(light_ids) : light_ids[i] \notin Registered
       THEN /\ ret' = Ret("create_coordination_group", None, None, FALSE)
            /\ UNCHANGED <<traffic_lights, coordination_groups>>
       ELSE /\ coordination_groups' = Append(coordination_groups, light_ids)
            /\ traffic_lights' =
                   [id \in Registered |->
                       IF \E i \in 1..Len(light_ids) : light_ids[i] = id
                       THEN [traffic_lights[id] EXCEPT !.connected_lights =
                                SelectSeq(light_ids, LAMBDA other : other # id)]
                       ELSE traffic_lights[id]]
            /\ ret' = Ret("create_coordination_group", None, None, TRUE)
    /\ UNCHANGED <<now, timing_dicts, traffic_densities>>
    /\ UNCHANGED <<calculator, result, threads, serverVars>>

\* coordinate_lights
CoordinateLights ==
    /\ traffic_lights' = AfterCoordinate(traffic_lights, 1)
    /\ ret' = Ret("coordinate_lights", None, None, TRUE)
    /\ UNCHANGED <<now, timing_dicts, traffic_densities, coordination_groups>>
    /\ UNCHANGED <<calculator, result, threads, serverVars>>

\* the number of timing_history records of all lights
RECURSIVE HistoryTotal(_)
HistoryTotal(ids) ==
    IF ids = {} THEN 0
    ELSE LET id == CHOOSE x \in ids : TRUE
         IN  Len(traffic_lights[id].timing_history) + HistoryTotal(ids \ {id})

\* the callers make at most max adjustments in all
HistoryRoom(n, max) == HistoryTotal(Registered) + n <= max

\* time passes between calls
Tick(d) ==
    /\ now' = now + d
    /\ UNCHANGED <<timing_dicts, traffic_lights, traffic_densities, coordination_groups, ret>>
    /\ UNCHANGED <<calculator, result, threads, serverVars>>

\* TrafficDensityCalculator.update
Update(vehicle_count) ==
    /\ calculator' = AfterUpdate(calculator, vehicle_count)
    /\ result' = Result("update", CalculateDensity(calculator'))
    /\ UNCHANGED <<now, timing_dicts, traffic_lights, traffic_densities,
                   coordination_groups, ret, threads, serverVars>>

\* TrafficDensityCalculator.calculate_density
CalculateDensityCall ==
    /\ result' = Result("calculate_density", CalculateDensity(calculator))
    /\ UNCHANGED <<now, timing_dicts, traffic_lights, traffic_densities,
                   coordination_groups, ret, calculator, threads, serverVars>>

\* TrafficDensityCalculator.get_congestion_level
GetCongestionLevel ==
    /\ result' = Result("get_congestion_level", CongestionLevel(calculator))
    /\ UNCHANGED <<now, timing_dicts, traffic_lights, traffic_densities,
                   coordination_groups, ret, calculator, threads, serverVars>>

\* TrafficDensityCalculator.get_density_trend
GetDensityTrend ==
    /\ \E trend \in TrendOutcomes(calculator) :
           result' = Result("get_density_trend", trend)
    /\ UNCHANGED <<now, timing_dicts, traffic_lights, traffic_densities,
                   coordination_groups, ret, calculator, threads, serverVars>>

\* ---------------------------------------------------------------------
\* Threads: thread t calls add_traffic_light(t) and, once every thread
\* has been joined, update_traffic_density(t, d).  Each access to a dict
\* of the controller is one step (the interpreter runs one bytecode of one
\* thread at a time), and the steps of the threads interleave freely.
\* ---------------------------------------------------------------------

\* a store that leaves the new entry alone in the dict
DictStoreAlone(dict, key, value) == (key :> value)

\* dict[key] = value
DictStore(dict, key, value) ==
    [k \in DOMAIN dict \cup {key} |-> IF k = key THEN value ELSE dict[k]]

\* the steps of thread t leave the rest of the model alone
ThreadFrame ==
    UNCHANGED <<now, coordination_groups, ret, calculator, result, serverVars>>

\* Thread.start of the thread that adds the light t
ThreadStartAdd(t) ==
    /\ threads[t].pc = "start"
    /\ threads' = [threads EXCEPT ![t].pc = "add_check"]
    /\ UNCHANGED <<timing_dicts, traffic_lights, traffic_densities>>
    /\ ThreadFrame

\* add_traffic_light: if id in self.traffic_lights
ThreadAddCheck(t) ==
    /\ threads[t].pc = "add_check"
    /\ threads' = [threads EXCEPT ![t].pc =
                      IF t \in Registered THEN "added" ELSE "add_construct"]
    /\ UNCHANGED <<timing_dicts, traffic_lights, traffic_densities>>
    /\ ThreadFrame

\* add_traffic_light: light = TrafficLight(id, None)
ThreadAddConstruct(t) ==
    /\ threads[t].pc = "add_construct"
    /\ timing_dicts' = (t :> DefaultTiming) @@ timing_dicts
    /\ threads' = [threads EXCEPT ![t].pc = "add_store_light", ![t].light = NewLight(t)]
    /\ UNCHANGED <<traffic_lights, traffic_densities>>
    /\ ThreadFrame

\* add_traffic_light: self.traffic_lights[id] = light
ThreadAddStoreLight(t) ==
    /\ threads[t].pc = "add_store_light"
    /\ traffic_lights' = DictStore(traffic_lights, t, threads[t].light)
    /\ threads' = [threads EXCEPT ![t].pc = "add_store_density"]
    /\ UNCHANGED <<timing_dicts, traffic_densities>>
    /\ ThreadFrame

\* add_traffic_light: self.traffic_densities[id] = 0.0, and the return
ThreadAddStoreDensity(t) ==
    /\ threads[t].pc = "add_store_density"
    /\ traffic_densities' = DictStore(traffic_densities, t, 0)
    /\ threads' = [threads EXCEPT ![t].pc = "added"]
    /\ UNCHANGED <<timing_dicts, traffic_lights>>
    /\ ThreadFrame

\* Thread.start of the thread that updates the light t, after the join of
\* every adding thread
ThreadStartUpdate(t, density) ==
    /\ \A u \in ThreadIds : threads[u].pc \notin
           {"start", "add_check", "add_construct", "add_store_light", "add_store_density"}
    /\ threads[t].pc = "added"
    /\ threads' = [threads EXCEPT ![t].pc = "update_check", ![t].density = density]
    /\ UNCHANGED <<timing_dicts, traffic_lights, traffic_densities>>
    /\ ThreadFrame

\* update_traffic_density: if light_id not in self.traffic_lights
ThreadUpdateCheck(t) ==
    /\ threads[t].pc = "update_check"
    /\ threads' = IF t \notin Registered
                  THEN [threads EXCEPT ![t].pc = "updated", ![t].ok = FALSE]
                  ELSE [threads EXCEPT ![t].pc = "update_store"]
    /\ UNCHANGED <<timing_dicts, traffic_lights, traffic_densities>>
    /\ ThreadFrame

\* update_traffic_density: self.traffic_densities[light_id] = density
ThreadUpdateStore(t) ==
    /\ threads[t].pc = "update_store"
    /\ traffic_densities' = DictStore(traffic_densities, t, threads[t].density)
    /\ threads' = [threads EXCEPT ![t].pc = "update_green"]
    /\ UNCHANGED <<timing_dicts, traffic_lights>>
    /\ ThreadFrame

\* _adjust_timing_based_on_density: light.adjust_timing('green', ...)
ThreadUpdateGreen(t) ==
    /\ threads[t].pc = "update_green"
    /\ LET st == AfterAdjustTiming([lights |-> traffic_lights, dicts |-> timing_dicts],
                                   t, "green", NewGreenTime(threads[t].density))
       IN  /\ traffic_lights' = st.lights
           /\ timing_dicts' = st.dicts
    /\ threads' = [threads EXCEPT ![t].pc = "update_red"]
    /\ UNCHANGED traffic_densities
    /\ ThreadFrame

\* _adjust_timing_based_on_density: light.adjust_timing('red', ...), and
\* the return of update_traffic_density
ThreadUpdateRed(t) ==
    /\ threads[t].pc = "update_red"
    /\ LET st == AfterAdjustTiming([lights |-> traffic_lights, dicts |-> timing_dicts],
                                   t, "red", NewRedTime(threads[t].density))
       IN  /\ traffic_lights' = st.lights
           /\ timing_dicts' = st.dicts
    /\ threads' = [threads EXCEPT ![t].pc = "updated", ![t].ok = TRUE]
    /\ UNCHANGED traffic_densities
    /\ ThreadFrame

\* ---------------------------------------------------------------------
\* CommunicationManager.  Every thread of the server (the acceptor, the
\* dispatcher, one handler per accepted connection) and every thread that
\* calls the manager runs one statement that reads or writes shared state
\* per step; the clients are the environment.  recv and accept block
\* until there is something to return.  On a socket that has been closed
\* in this process, a call made after the close raises, and a call that
\* was blocked at the close goes on as if the socket were open (it keeps
\* the socket alive); the model does not tell the two apart and allows
\* both outcomes.  time.time() is now.
\* ---------------------------------------------------------------------

\* the ids that are mapped to a connection
Mapped == DOMAIN client_connections

\* del dict[key]
DictDel(dict, key) == [k \in DOMAIN dict \ {key} |-> dict[k]]

\* socket.sendall(bytes): the bytes reach the peer (TRUE) or the call
\* raises (FALSE); it raises on a socket closed in this process, and may
\* raise once the peer has closed
SendallOutcomes(c) ==
    IF connections[c].state # "open" THEN {FALSE}
    ELSE IF connections[c].peer_closed THEN {TRUE, FALSE}
    ELSE {TRUE}

\* the connections after message has been written to the socket c
AfterSendall(c, message) == [connections EXCEPT ![c].outbound = Append(@, message)]

\* the steps of the clients and of the server leave the signals alone
ServerFrame == UNCHANGED signalVars

\* the listening socket takes connections: it is open, or it has been
\* closed while a thread was blocked in accept()
Listening ==
    \/ server_socket = "listening"
    \/ server_socket = "closed" /\ \E i \in DOMAIN acceptor : acceptor[i] = "accept"

\* A client that is going to write the messages of script connects to the
\* listening socket
ClientConnect(c, script) ==
    /\ Listening
    /\ connections[c].state = "unused"
    /\ connections' = [connections EXCEPT ![c].state = "pending", ![c].script = script]
    /\ UNCHANGED <<running, server_socket, client_connections, message_queue,
                   handlers, acceptor, dispatcher, caller>>
    /\ ServerFrame

\* the client may write on the connection c
ClientMayWrite(c) ==
    /\ connections[c].state \in {"pending", "open"}
    /\ ~connections[c].peer_closed

\* the message the client of the connection c writes next
NextMessage(c) == connections[c].script[connections[c].sent + 1]

\* the client of the connection c has a message to write
HasNextMessage(c) == connections[c].sent < Len(connections[c].script)

\* A client writes the message m, which the server reads in one recv
ClientSend(c, m) ==
    /\ ClientMayWrite(c)
    /\ connections' = [connections EXCEPT ![c].inbound = Append(@, <<Whole(m)>>),
                                          ![c].sent = @ + 1]
    /\ UNCHANGED <<running, server_socket, client_connections, message_queue,
                   handlers, acceptor, dispatcher, caller>>
    /\ ServerFrame

\* A client writes the message m before the server has read the bytes
\* written before it: one recv returns them together
ClientSendCoalesced(c, m) ==
    /\ ClientMayWrite(c)
    /\ connections[c].inbound # <<>>
    /\ LET last == Len(connections[c].inbound)
       IN  connections' = [connections EXCEPT ![c].inbound[last] = Append(@, Whole(m)),
                                              ![c].sent = @ + 1]
    /\ UNCHANGED <<running, server_socket, client_connections, message_queue,
                   handlers, acceptor, dispatcher, caller>>
    /\ ServerFrame

\* A client writes the message m, which is longer than one recv returns or
\* is cut by the transport: two recv return its two parts
ClientSendSplit(c, m) ==
    /\ ClientMayWrite(c)
    /\ connections' = [connections EXCEPT
                          ![c].inbound = @ \o << <<Fragment(m, 1)>>, <<Fragment(m, 2)>> >>,
                          ![c].sent = @ + 1]
    /\ UNCHANGED <<running, server_socket, client_connections, message_queue,
                   handlers, acceptor, dispatcher, caller>>
    /\ ServerFrame

\* A client closes its end of the connection
ClientClose(c) ==
    /\ ClientMayWrite(c)
    /\ connections' = [connections EXCEPT ![c].peer_closed = TRUE]
    /\ UNCHANGED <<running, server_socket, client_connections, message_queue,
                   handlers, acceptor, dispatcher, caller>>
    /\ ServerFrame

\* _accept_connections: while self.running
AcceptConnectionsLoop(i) ==
    /\ i \in DOMAIN acceptor
    /\ acceptor[i] = "loop"
    /\ acceptor' = [acceptor EXCEPT ![i] = IF running THEN "accept" ELSE "done"]
    /\ UNCHANGED <<running, server_socket, client_connections, message_queue,
                   connections, handlers, dispatcher, caller>>
    /\ ServerFrame

\* _accept_connections: accept() returns the connection c, and the thread
\* of its handler starts
AcceptConnectionsAccept(i, c) ==
    /\ i \in DOMAIN acceptor
    /\ acceptor[i] = "accept"
    /\ Listening
    /\ connections[c].state = "pending"
    /\ connections' = [connections EXCEPT ![c].state = "open"]
    /\ handlers' = [handlers EXCEPT ![c] = [NewHandler EXCEPT !.pc = "recv_first"]]
    /\ acceptor' = [acceptor EXCEPT ![i] = "loop"]
    /\ UNCHANGED <<running, server_socket, client_connections, message_queue,
                   dispatcher, caller>>
    /\ ServerFrame

\* _accept_connections: accept() raises on the closed listening socket
AcceptConnectionsRaise(i) ==
    /\ i \in DOMAIN acceptor
    /\ acceptor[i] = "accept"
    /\ server_socket = "closed"
    /\ acceptor' = [acceptor EXCEPT ![i] = "loop"]
    /\ UNCHANGED <<running, server_socket, client_connections, message_queue,
                   connections, handlers, dispatcher, caller>>
    /\ ServerFrame

\* what the steps of a handler leave alone
HandlerFrame ==
    /\ UNCHANGED <<running, server_socket, acceptor, dispatcher, caller>>
    /\ ServerFrame

\* _handle_client: data = client_socket.recv(1024), at either call.  The
\* handler goes to the finally clause when recv raises on the closed
\* socket, to parsed when recv returns bytes, to the finally clause when
\* recv returns b''.
HandleClientRecvAt(c, from, parsed) ==
    /\ handlers[c].pc = from
    /\ \/ /\ connections[c].state = "closed"
          /\ handlers' = [handlers EXCEPT ![c].pc = "finally"]
          /\ UNCHANGED connections
       \/ /\ connections[c].inbound # <<>>
          /\ handlers' = [handlers EXCEPT ![c].pc = parsed,
                                          ![c].data = Head(connections[c].inbound)]
          /\ connections' = [connections EXCEPT ![c].inbound = Tail(@)]
       \/ /\ connections[c].inbound = <<>>
          /\ connections[c].peer_closed
          /\ handlers' = [handlers EXCEPT ![c].pc = "finally", ![c].data = NoData]
          /\ UNCHANGED connections
    /\ UNCHANGED <<client_connections, message_queue>>
    /\ HandlerFrame

\* _handle_client: the first recv
HandleClientRecvFirst(c) == HandleClientRecvAt(c, "recv_first", "register")

\* a registration that takes place whatever the first message is
HandleClientRegisterAnything(c) ==
    /\ handlers[c].pc = "register"
    /\ LET message == Loads(handlers[c].data)
           id == IF message = JSONDecodeError THEN "A" ELSE message.id
       IN  /\ handlers' = [handlers EXCEPT ![c].pc = "loop", ![c].client_id = id]
           /\ client_connections' = DictStore(client_connections, id, c)
    /\ UNCHANGED <<message_queue, connections>>
    /\ HandlerFrame

\* _handle_client: the registration message
HandleClientRegister(c) ==
    /\ handlers[c].pc = "register"
    /\ LET message == Loads(handlers[c].data)
       IN  IF message = JSONDecodeError
           THEN /\ handlers' = [handlers EXCEPT ![c].pc = "finally"]
                /\ UNCHANGED client_connections
           ELSE IF message.syntax = "object" /\ message.id # Absent
           THEN /\ handlers' = [handlers EXCEPT ![c].pc = "loop",
                                                ![c].client_id = message.id]
                /\ client_connections' = DictStore(client_connections, message.id, c)
           ELSE /\ handlers' = [handlers EXCEPT ![c].pc = "finally"]
                /\ UNCHANGED client_connections
    /\ UNCHANGED <<message_queue, connections>>
    /\ HandlerFrame

\* _handle_client: while self.running
HandleClientLoop(c) ==
    /\ handlers[c].pc = "loop"
    /\ handlers' = [handlers EXCEPT ![c].pc = IF running THEN "recv" ELSE "finally"]
    /\ UNCHANGED <<client_connections, message_queue, connections>>
    /\ HandlerFrame

\* _handle_client: the recv of the main loop
HandleClientRecv(c) == HandleClientRecvAt(c, "recv", "put")

\* a handler that tags only the messages that name no sender
HandleClientPutKeepingSender(c) ==
    /\ handlers[c].pc = "put"
    /\ LET message == Loads(handlers[c].data)
       IN  IF message = JSONDecodeError
           THEN /\ handlers' = [handlers EXCEPT ![c].pc = "loop"]
                /\ UNCHANGED message_queue
           ELSE IF message.syntax = "object"
           THEN /\ handlers' = [handlers EXCEPT ![c].pc = "loop"]
                /\ message_queue' =
                       Append(message_queue,
                              IF message.sender = Absent
                              THEN [message EXCEPT !.sender = handlers[c].client_id]
                              ELSE message)
           ELSE /\ handlers' = [handlers EXCEPT ![c].pc = "finally"]
                /\ UNCHANGED message_queue
    /\ UNCHANGED <<client_connections, connections>>
    /\ HandlerFrame

\* _handle_client: the message is parsed, tagged and put on the queue
HandleClientPut(c) ==
    /\ handlers[c].pc = "put"
    /\ LET message == Loads(handlers[c].data)
       IN  IF message = JSONDecodeError
           THEN /\ handlers' = [handlers EXCEPT ![c].pc = "loop"]
                /\ UNCHANGED message_queue
           ELSE IF message.syntax = "object"
           THEN /\ handlers' = [handlers EXCEPT ![c].pc = "loop"]
                /\ message_queue' = Append(message_queue,
                                           [message EXCEPT !.sender = handlers[c].client_id])
           ELSE /\ handlers' = [handlers EXCEPT ![c].pc = "finally"]
                /\ UNCHANGED message_queue
    /\ UNCHANGED <<client_connections, connections>>
    /\ HandlerFrame

\* _handle_client: finally, if client_id and client_id in
\* self.client_connections
HandleClientFinally(c) ==
    /\ handlers[c].pc = "finally"
    /\ handlers' = [handlers EXCEPT ![c].pc =
                       IF Truthy(handlers[c].client_id) /\ handlers[c].client_id \in Mapped
                       THEN "del" ELSE "close"]
    /\ UNCHANGED <<client_connections, message_queue, connections>>
    /\ HandlerFrame

\* _handle_client: del self.client_connections[client_id]; a KeyError
\* ends the thread before it closes the socket
HandleClientDel(c) ==
    /\ handlers[c].pc = "del"
    /\ IF handlers[c].client_id \in Mapped
       THEN /\ client_connections' = DictDel(client_connections, handlers[c].client_id)
            /\ handlers' = [handlers EXCEPT ![c].pc = "close"]
       ELSE /\ handlers' = [handlers EXCEPT ![c].pc = "done"]
            /\ UNCHANGED client_connections
    /\ UNCHANGED <<message_queue, connections>>
    /\ HandlerFrame

\* _handle_client: client_socket.close(), and the thread ends
HandleClientClose(c) ==
    /\ handlers[c].pc = "close"
    /\ connections' = [connections EXCEPT ![c].state = "closed"]
    /\ handlers' = [handlers EXCEPT ![c].pc = "done"]
    /\ UNCHANGED <<client_connections, message_queue>>
    /\ HandlerFrame

\* _process_messages: while self.running
ProcessMessagesLoop(i) ==
    /\ i \in DOMAIN dispatcher
    /\ dispatcher[i].pc = "loop"
    /\ dispatcher' = [dispatcher EXCEPT ![i].pc = IF running THEN "get" ELSE "done"]
    /\ UNCHANGED <<running, server_socket, client_connections, message_queue,
                   connections, handlers, acceptor, caller>>
    /\ ServerFrame

\* _process_messages: self.message_queue.get(timeout=1.0) returns the
\* oldest message, or raises queue.Empty after the timeout
ProcessMessagesGet(i) ==
    /\ i \in DOMAIN dispatcher
    /\ dispatcher[i].pc = "get"
    /\ IF message_queue # <<>>
       THEN /\ dispatcher' = [dispatcher EXCEPT ![i].pc = "process",
                                                ![i].message = Head(message_queue)]
            /\ message_queue' = Tail(message_queue)
       ELSE /\ dispatcher' = [dispatcher EXCEPT ![i].pc = "loop"]
            /\ UNCHANGED message_queue
    /\ UNCHANGED <<running, server_socket, client_connections, connections,
                   handlers, acceptor, caller>>
    /\ ServerFrame

\* _handle_command: what self.client_connections[target].sendall(...) can
\* give once target has been found in the mapping: the outcomes of sendall
\* on the socket of the entry, and an exception (a KeyError) when a handler
\* that is about to delete the entry does so before the lookup
CommandOutcomes(target) ==
    SendallOutcomes(client_connections[target]) \cup
        {FALSE : c \in {h \in Conns : handlers[h].pc = "del" /\ handlers[h].client_id = target}}

\* a dispatcher that forwards a command to every mapped connection
ProcessMessagesProcessToAll(i) ==
    /\ i \in DOMAIN dispatcher
    /\ dispatcher[i].pc = "process"
    /\ LET message == dispatcher[i].message
       IN  IF /\ message.type = "command"
              /\ message.target # Absent
              /\ message.target \in Mapped
           THEN connections' =
                    [c \in Conns |->
                        IF \E id \in Mapped : client_connections[id] = c
                        THEN [connections[c] EXCEPT !.outbound = Append(@, message)]
                        ELSE connections[c]]
           ELSE UNCHANGED connections
    /\ dispatcher' = [dispatcher EXCEPT ![i].pc = "loop", ![i].message = None]
    /\ UNCHANGED <<running, server_socket, client_connections, message_queue,
                   handlers, acceptor, caller>>
    /\ ServerFrame

\* _process_messages: the message is processed by its type;
\* _handle_command forwards a command to the connection of its target and
\* logs an error when that fails (errors counts these)
ProcessMessagesProcess(i) ==
    /\ i \in DOMAIN dispatcher
    /\ dispatcher[i].pc = "process"
    /\ LET message == dispatcher[i].message
       IN  IF /\ message.type = "command"
              /\ message.target # Absent
              /\ message.target \in Mapped
           THEN \E sent \in CommandOutcomes(message.target) :
                    /\ connections' =
                           IF sent
                           THEN AfterSendall(client_connections[message.target], message)
                           ELSE connections
                    /\ dispatcher' = [dispatcher EXCEPT
                                         ![i].pc = "loop", ![i].message = None,
                                         ![i].errors = IF sent THEN @ ELSE @ + 1]
           ELSE /\ UNCHANGED connections
                /\ dispatcher' = [dispatcher EXCEPT ![i].pc = "loop", ![i].message = None]
    /\ UNCHANGED <<running, server_socket, client_connections, message_queue,
                   handlers, acceptor, caller>>
    /\ ServerFrame

\* the caller k after its call has returned value
Returned(k, op, value) ==
    [caller[k] EXCEPT !.op = op, !.pc = "idle", !.returned = value,
                      !.snapshot = {}, !.message = None, !.calls = @ + 1]

\* start_server: if self.running
StartServerCheck(k) ==
    /\ caller[k].pc = "idle"
    /\ caller' = [caller EXCEPT ![k] =
                     IF running THEN Returned(k, "start_server", None)
                     ELSE [caller[k] EXCEPT !.op = "start_server", !.pc = "listen",
                                            !.returned = None]]
    /\ UNCHANGED <<running, server_socket, client_connections, message_queue,
                   connections, handlers, acceptor, dispatcher>>
    /\ ServerFrame

\* start_server: the listening socket
StartServerListen(k) ==
    /\ caller[k].op = "start_server"
    /\ caller[k].pc = "listen"
    /\ server_socket' = "listening"
    /\ caller' = [caller EXCEPT ![k].pc = "set_running"]
    /\ UNCHANGED <<running, client_connections, message_queue, connections, handlers,
                   acceptor, dispatcher>>
    /\ ServerFrame

\* start_server: self.running = True
StartServerSetRunning(k) ==
    /\ caller[k].op = "start_server"
    /\ caller[k].pc = "set_running"
    /\ running' = TRUE
    /\ caller' = [caller EXCEPT ![k].pc = "spawn_accept"]
    /\ UNCHANGED <<server_socket, client_connections, message_queue, connections,
                   handlers, acceptor, dispatcher>>
    /\ ServerFrame

\* start_server: the thread of _accept_connections starts
StartServerSpawnAccept(k) ==
    /\ caller[k].op = "start_server"
    /\ caller[k].pc = "spawn_accept"
    /\ acceptor' = Append(acceptor, "loop")
    /\ caller' = [caller EXCEPT ![k].pc = "spawn_process"]
    /\ UNCHANGED <<running, server_socket, client_connections, message_queue,
                   connections, handlers, dispatcher>>
    /\ ServerFrame

\* start_server: the thread of _process_messages starts, and the return
StartServerSpawnProcess(k) ==
    /\ caller[k].op = "start_server"
    /\ caller[k].pc = "spawn_process"
    /\ dispatcher' = Append(dispatcher, [pc |-> "loop", message |-> None, errors |-> 0])
    /\ caller' = [caller EXCEPT ![k] = Returned(k, "start_server", None)]
    /\ UNCHANGED <<running, server_socket, client_connections, message_queue,
                   connections, handlers, acceptor>>
    /\ ServerFrame

\* stop: self.running = False
StopSetRunning(k) ==
    /\ caller[k].pc = "idle"
    /\ running' = FALSE
    /\ caller' = [caller EXCEPT ![k].op = "stop", ![k].pc = "close_clients",
                                ![k].returned = None]
    /\ UNCHANGED <<server_socket, client_connections, message_queue, connections,
                   handlers, acceptor, dispatcher>>
    /\ ServerFrame

\* stop: every socket of list(self.client_connections.items()) is closed
StopCloseClients(k) ==
    /\ caller[k].op = "stop"
    /\ caller[k].pc = "close_clients"
    /\ connections' = [c \in Conns |->
                          IF \E id \in Mapped : client_connections[id] = c
                          THEN [connections[c] EXCEPT !.state = "closed"]
                          ELSE connections[c]]
    /\ caller' = [caller EXCEPT ![k].pc = "clear"]
    /\ UNCHANGED <<running, server_socket, client_connections, message_queue,
                   handlers, acceptor, dispatcher>>
    /\ ServerFrame

\* stop: self.client_connections.clear()
StopClear(k) ==
    /\ caller[k].op = "stop"
    /\ caller[k].pc = "clear"
    /\ client_connections' = <<>>
    /\ caller' = [caller EXCEPT ![k].pc = "close_server"]
    /\ UNCHANGED <<running, server_socket, message_queue, connections, handlers,
                   acceptor, dispatcher>>
    /\ ServerFrame

\* stop: the listening socket, if there is one, is closed, which refuses
\* the connections that wait to be accepted unless a thread is blocked in
\* accept(); and the return
StopCloseServer(k) ==
    /\ caller[k].op = "stop"
    /\ caller[k].pc = "close_server"
    /\ server_socket' = IF server_socket = None THEN None ELSE "closed"
    /\ connections' = [c \in Conns |->
                          IF /\ connections[c].state = "pending"
                             /\ \A i \in DOMAIN acceptor : acceptor[i] # "accept"
                          THEN [connections[c] EXCEPT !.state = "refused"]
                          ELSE connections[c]]
    /\ caller' = [caller EXCEPT ![k] = Returned(k, "stop", None)]
    /\ UNCHANGED <<running, client_connections, message_queue, handlers, acceptor,
                   dispatcher>>
    /\ ServerFrame

\* what send_message and broadcast_message leave alone
CallerFrame ==
    /\ UNCHANGED <<running, server_socket, message_queue, handlers, acceptor, dispatcher>>
    /\ ServerFrame

\* the message of send_message
SentMessage(target_id, message_type, data) ==
    [syntax |-> "object", id |-> Absent, type |-> message_type, target |-> target_id,
     sender |-> Absent, data |-> data, timestamp |-> ToString(now)]

\* the message of broadcast_message
BroadcastMessage(message_type, data) ==
    [syntax |-> "object", id |-> Absent, type |-> message_type, target |-> Absent,
     sender |-> Absent, data |-> data, timestamp |-> ToString(now)]

\* send_message: if not self.running
SendMessageCheckRunning(k, target_id, message_type, data) ==
    /\ caller[k].pc = "idle"
    /\ caller' = [caller EXCEPT ![k] =
                     IF ~running THEN Returned(k, "send_message", FALSE)
                     ELSE [caller[k] EXCEPT
                              !.op = "send_message", !.pc = "check_target",
                              !.returned = None, !.target = target_id,
                              !.message = SentMessage(target_id, message_type, data)]]
    /\ UNCHANGED <<client_connections, connections>>
    /\ CallerFrame

\* send_message: if target_id not in self.client_connections
SendMessageCheckTarget(k) ==
    /\ caller[k].op = "send_message"
    /\ caller[k].pc = "check_target"
    /\ caller' = [caller EXCEPT ![k] =
                     IF caller[k].target \notin Mapped
                     THEN Returned(k, "send_message", FALSE)
                     ELSE [caller[k] EXCEPT !.pc = "sendall"]]
    /\ UNCHANGED <<client_connections, connections>>
    /\ CallerFrame

\* a send_message that looks the socket up outside its try: the KeyError
\* of a missing entry reaches the caller
SendMessageSendallRaising(k) ==
    /\ caller[k].op = "send_message"
    /\ caller[k].pc = "sendall"
    /\ IF caller[k].target \notin Mapped
       THEN /\ caller' = [caller EXCEPT ![k] = Returned(k, "send_message", "KeyError")]
            /\ UNCHANGED connections
       ELSE \E sent \in SendallOutcomes(client_connections[caller[k].target]) :
                /\ connections' = IF sent
                                  THEN AfterSendall(client_connections[caller[k].target],
                                                    caller[k].message)
                                  ELSE connections
                /\ caller' = [caller EXCEPT ![k] = Returned(k, "send_message", sent)]
    /\ UNCHANGED client_connections
    /\ CallerFrame

\* a send_message that reports a failed write as a success
SendMessageSendallAlwaysTrue(k) ==
    /\ caller[k].op = "send_message"
    /\ caller[k].pc = "sendall"
    /\ IF caller[k].target \notin Mapped
       THEN UNCHANGED connections
       ELSE \E sent \in SendallOutcomes(client_connections[caller[k].target]) :
                connections' = IF sent
                               THEN AfterSendall(client_connections[caller[k].target],
                                                 caller[k].message)
                               ELSE connections
    /\ caller' = [caller EXCEPT ![k] = Returned(k, "send_message", TRUE)]
    /\ UNCHANGED client_connections
    /\ CallerFrame

\* send_message: self.client_connections[target_id].sendall(...), in the
\* try that turns every exception into False
SendMessageSendall(k) ==
    /\ caller[k].op = "send_message"
    /\ caller[k].pc = "sendall"
    /\ IF caller[k].target \notin Mapped
       THEN /\ caller' = [caller EXCEPT ![k] = Returned(k, "send_message", FALSE)]
            /\ UNCHANGED connections
       ELSE \E sent \in SendallOutcomes(client_connections[caller[k].target]) :
                /\ connections' = IF sent
                                  THEN AfterSendall(client_connections[caller[k].target],
                                                    caller[k].message)
                                  ELSE connections
                /\ caller' = [caller EXCEPT ![k] = Returned(k, "send_message", sent)]
    /\ UNCHANGED client_connections
    /\ CallerFrame

\* broadcast_message: if not self.running
BroadcastMessageCheckRunning(k, message_type, data) ==
    /\ caller[k].pc = "idle"
    /\ caller' = [caller EXCEPT ![k] =
                     IF ~running THEN Returned(k, "broadcast_message", None)
                     ELSE [caller[k] EXCEPT
                              !.op = "broadcast_message", !.pc = "snapshot",
                              !.returned = None, !.failures = 0,
                              !.message = BroadcastMessage(message_type, data)]]
    /\ UNCHANGED <<client_connections, connections>>
    /\ CallerFrame

\* broadcast_message: list(self.client_connections.items())
BroadcastMessageSnapshot(k) ==
    /\ caller[k].op = "broadcast_message"
    /\ caller[k].pc = "snapshot"
    /\ caller' = [caller EXCEPT ![k].pc = "sendall",
                                ![k].snapshot = {<<id, client_connections[id]>> : id \in Mapped}]
    /\ UNCHANGED <<client_connections, connections>>
    /\ CallerFrame

\* a broadcast_message that gives up at the first write that fails
BroadcastMessageSendallUntilFailure(k) ==
    /\ caller[k].op = "broadcast_message"
    /\ caller[k].pc = "sendall"
    /\ IF caller[k].snapshot = {}
       THEN /\ caller' = [caller EXCEPT ![k] = Returned(k, "broadcast_message", None)]
            /\ UNCHANGED connections
       ELSE \E item \in caller[k].snapshot : \E sent \in SendallOutcomes(item[2]) :
                /\ connections' = IF sent THEN AfterSendall(item[2], caller[k].message)
                                  ELSE connections
                /\ caller' = [caller EXCEPT
                                 ![k].snapshot = IF sent THEN @ \ {item} ELSE {},
                                 ![k].failures = IF sent THEN @ ELSE @ + 1]
    /\ UNCHANGED client_connections
    /\ CallerFrame

\* broadcast_message: the loop over the snapshot, one sendall in a try per
\* item, and the return after the last item
BroadcastMessageSendall(k) ==
    /\ caller[k].op = "broadcast_message"
    /\ caller[k].pc = "sendall"
    /\ IF caller[k].snapshot = {}
       THEN /\ caller' = [caller EXCEPT ![k] = Returned(k, "broadcast_message", None)]
            /\ UNCHANGED connections
       ELSE \E item \in caller[k].snapshot : \E sent \in SendallOutcomes(item[2]) :
                /\ connections' = IF sent THEN AfterSendall(item[2], caller[k].message)
                                  ELSE connections
                /\ caller' = [caller EXCEPT
                                 ![k].snapshot = @ \ {item},
                                 ![k].failures = IF sent THEN @ ELSE @ + 1]
    /\ UNCHANGED client_connections
    /\ CallerFrame

\* Calls on the signals' phases and on the coordination engine. The lights
\* are registered and grouped at start-up (now = 0), as
\* TrafficControlSystem.start does, with no timing dict or with the
\* configuration's.
Next ==
    \/ \E id \in LightIds, r \in {None, "config"} : now = 0 /\ AddTrafficLight(id, r)
    \/ \E id \in LightIds : GetCurrentPhase(id)
    \/ \E id \in ForcedIds, p \in PhaseArgs : ForcePhase(id, p)
    \/ \E id \in LightIds \cup UnknownIds, d \in Densities :
           HistoryRoom(2, MaxHist) /\ UpdateTrafficDensity(id, d)
    \/ \E g \in GroupLists :
           /\ now = 0
           /\ Len(coordination_groups) < MaxGroups
           /\ CreateCoordinationGroup(g)
    \/ CoordinateLights
    \/ \E d \in TickSteps : now + d <= MaxTime /\ Tick(d)

Spec == Init /\ [][Next]_vars

\* Calls on the timing tables
NextTiming ==
    \/ \E id \in LightIds, r \in {None, "config"} : now = 0 /\ AddTrafficLight(id, r)
    \/ \E id \in AdjustedIds, p \in PhaseArgs, x \in Seconds :
           HistoryRoom(1, MaxTimingHist) /\ AdjustTiming(id, p, x)
    \/ \E id \in LightIds \cup UnknownIds, d \in Densities :
           HistoryRoom(2, MaxTimingHist) /\ UpdateTrafficDensity(id, d)
    \/ \E d \in TickSteps : now + d <= MaxTimingTime /\ Tick(d)

SpecTiming == Init /\ [][NextTiming]_vars

\* adjust_timing calls on two lights, with room for one adjustment more
NextShared ==
    \/ \E id \in LightIds, r \in {None, "config"} : now = 0 /\ AddTrafficLight(id, r)
    \/ \E id \in LightIds, p \in Phases, x \in SharedSeconds :
           HistoryRoom(1, MaxSharedHist) /\ AdjustTiming(id, p, x)
    \/ \E d \in TickSteps : now + d <= MaxTimingTime /\ Tick(d)

SpecShared == Init /\ [][NextShared]_vars

\* The end-to-end scenario: L1..L4 are registered in this order, all with no
\* timing dict or all with the configuration's, and put into one group; each
\* density is then set once, in the same order, as the main loop does; L1's
\* phase is read and forced at any time.
E2ERegistered(n) == \A i \in 1..n : E2EGroup[i] \in Registered
E2EUpdated(n) == \A i \in 1..n : traffic_lights[E2EGroup[i]].timing_history # <<>>

NextE2E ==
    \/ \E i \in 1..Len(E2EGroup), r \in {None, "config"} :
           /\ now = 0
           /\ E2ERegistered(i - 1)
           /\ i > 1 => (r = "config" <=> traffic_lights["L1"].timing = "config")
           /\ AddTrafficLight(E2EGroup[i], r)
    \/ /\ now = 0
       /\ Len(coordination_groups) < MaxGroups
       /\ CreateCoordinationGroup(E2EGroup)
    \/ \E i \in 1..Len(E2EGroup) :
           /\ E2ERegistered(Len(E2EGroup))
           /\ E2EUpdated(i - 1)
           /\ traffic_lights[E2EGroup[i]].timing_history = <<>>
           /\ UpdateTrafficDensity(E2EGroup[i], E2EDensity(E2EGroup[i]))
    \/ \E id \in ForcedIds : GetCurrentPhase(id)
    \/ \E id \in ForcedIds, p \in Phases : ForcePhase(id, p)
    \/ CoordinateLights
    \/ \E d \in TickSteps : now + d <= MaxTime /\ Tick(d)

SpecE2E == Init /\ [][NextE2E]_vars

\* update_traffic_density calls, one after another, on lights registered at
\* start-up; a call on an unknown light adjusts nothing
NextPolicy ==
    \/ \E id \in LightIds, r \in {None, "config"} : now = 0 /\ AddTrafficLight(id, r)
    \/ \E id \in LightIds \cup UnknownIds, d \in PolicyDensities :
           /\ id \in Registered => HistoryRoom(2, MaxPolicyHist)
           /\ UpdateTrafficDensity(id, d)

SpecPolicy == Init /\ [][NextPolicy]_vars

\* create_coordination_group calls, one after another, on lights registered at
\* start-up
NextGroups ==
    \/ \E id \in GroupedIds : now = 0 /\ AddTrafficLight(id, None)
    \/ \E g \in SharingGroupLists :
           /\ Len(coordination_groups) < MaxGroupCalls
           /\ CreateCoordinationGroup(g)

SpecGroups == Init /\ [][NextGroups]_vars

\* A calculator built with one of the configurations, and no light
InitDensity ==
    /\ now = 0
    /\ timing_dicts = ("config" :> DefaultTiming)
    /\ traffic_lights = <<>>
    /\ traffic_densities = <<>>
    /\ coordination_groups = <<>>
    /\ ret = Ret("init", None, None, TRUE)
    /\ \E c \in CalculatorConfigs : calculator = NewCalculator(c[1], c[2])
    /\ result = Result("init", None)
    /\ ThreadsInit
    /\ ServerInit

\* Calls on the calculator
NextDensity ==
    \/ \E c \in VehicleCounts(calculator) :
           Len(calculator.density_history) < MaxUpdates /\ Update(c)
    \/ CalculateDensityCall
    \/ GetCongestionLevel
    \/ GetDensityTrend

SpecDensity == InitDensity /\ [][NextDensity]_vars

\* Threads that add their lights and then update them
InitThreads ==
    /\ now = 0
    /\ timing_dicts = ("config" :> DefaultTiming)
    /\ traffic_lights = <<>>
    /\ traffic_densities = <<>>
    /\ coordination_groups = <<>>
    /\ ret = Ret("init", None, None, TRUE)
    /\ calculator = NewCalculator(DefaultWindowSize, DefaultCongestionThreshold)
    /\ result = Result("init", None)
    /\ ThreadsInit
    /\ ServerInit

NextThreads ==
    \/ \E t \in ThreadIds : ThreadStartAdd(t)
    \/ \E t \in ThreadIds : ThreadAddCheck(t)
    \/ \E t \in ThreadIds : ThreadAddConstruct(t)
    \/ \E t \in ThreadIds : ThreadAddStoreLight(t)
    \/ \E t \in ThreadIds : ThreadAddStoreDensity(t)
    \/ \E t \in ThreadIds, d \in ThreadDensities : ThreadStartUpdate(t, d)
    \/ \E t \in ThreadIds : ThreadUpdateCheck(t)
    \/ \E t \in ThreadIds : ThreadUpdateStore(t)
    \/ \E t \in ThreadIds : ThreadUpdateGreen(t)
    \/ \E t \in ThreadIds : ThreadUpdateRed(t)

SpecThreads == InitThreads /\ [][NextThreads]_vars

\* The server and its clients start as the controller's threads do
InitServer == InitThreads

\* the steps of the acceptor while the listening socket is open
AcceptorSteps ==
    \/ \E i \in DOMAIN acceptor : AcceptConnectionsLoop(i)
    \/ \E i \in DOMAIN acceptor, c \in Conns : AcceptConnectionsAccept(i, c)

HandlerSteps ==
    \/ \E c \in Conns : HandleClientRecvFirst(c)
    \/ \E c \in Conns : HandleClientRegister(c)
    \/ \E c \in Conns : HandleClientLoop(c)
    \/ \E c \in Conns : HandleClientRecv(c)
    \/ \E c \in Conns : HandleClientPut(c)
    \/ \E c \in Conns : HandleClientFinally(c)
    \/ \E c \in Conns : HandleClientDel(c)
    \/ \E c \in Conns : HandleClientClose(c)

DispatcherSteps ==
    \/ \E i \in DOMAIN dispatcher : ProcessMessagesLoop(i)
    \/ \E i \in DOMAIN dispatcher : ProcessMessagesGet(i)
    \/ \E i \in DOMAIN dispatcher : ProcessMessagesProcess(i)

\* the steps of start_server after its first
StartServerSteps ==
    \/ \E k \in Operators : StartServerListen(k)
    \/ \E k \in Operators : StartServerSetRunning(k)
    \/ \E k \in Operators : StartServerSpawnAccept(k)
    \/ \E k \in Operators : StartServerSpawnProcess(k)

\* the steps of stop after its first
StopSteps ==
    \/ \E k \in Operators : StopCloseClients(k)
    \/ \E k \in Operators : StopClear(k)
    \/ \E k \in Operators : StopCloseServer(k)

\* Registration: the server is started, clients connect, write what
\* RegisterScripts gives them and close
NextRegister ==
    \/ \E k \in Operators : caller[k].calls < MaxStartCalls /\ StartServerCheck(k)
    \/ StartServerSteps
    \/ \E c \in Conns : \E script \in RegisterScripts(c) : ClientConnect(c, script)
    \/ \E c \in Conns : HasNextMessage(c) /\ ClientSend(c, NextMessage(c))
    \/ \E c \in Conns : ClientClose(c)
    \/ AcceptorSteps
    \/ HandlerSteps
    \/ DispatcherSteps

SpecRegister == InitServer /\ [][NextRegister]_vars

\* Shutdown: the server is started and stopped while the clients of
\* StopScripts connect and write
NextStop ==
    \/ \E k \in Operators : caller[k].calls < MaxCalls /\ StartServerCheck(k)
    \/ StartServerSteps
    \/ \E k \in Operators : caller[k].calls < MaxCalls /\ StopSetRunning(k)
    \/ StopSteps
    \/ \E c \in Conns : \E script \in StopScripts(c) : ClientConnect(c, script)
    \/ \E c \in Conns : HasNextMessage(c) /\ ClientSend(c, NextMessage(c))
    \/ AcceptorSteps
    \/ \E i \in DOMAIN acceptor : AcceptConnectionsRaise(i)
    \/ HandlerSteps
    \/ DispatcherSteps

SpecStop == InitServer /\ [][NextStop]_vars

\* Framing: the clients of FramingScripts write their messages, and the
\* transport delivers each alone, together with the bytes before it, or
\* in two parts
NextFraming ==
    \/ \E k \in Operators : caller[k].calls < MaxStartCalls /\ StartServerCheck(k)
    \/ StartServerSteps
    \/ \E c \in Conns : \E script \in FramingScripts(c) : ClientConnect(c, script)
    \/ \E c \in Conns : HasNextMessage(c) /\ ClientSend(c, NextMessage(c))
    \/ \E c \in Conns : HasNextMessage(c) /\ ClientSendCoalesced(c, NextMessage(c))
    \/ \E c \in Conns : HasNextMessage(c) /\ ClientSendSplit(c, NextMessage(c))
    \/ \E c \in Conns : ClientClose(c)
    \/ AcceptorSteps
    \/ HandlerSteps
    \/ DispatcherSteps

SpecFraming == InitServer /\ [][NextFraming]_vars

\* Sending: one thread starts the server while another calls send_message
\* and broadcast_message, the clients of SendScripts register and close.
\* The clients write nothing after their id, so the handlers put no
\* message and the dispatcher processes none.
NextSend ==
    \/ \E k \in Operators : caller[k].calls < MaxStartCalls /\ StartServerCheck(k)
    \/ StartServerSteps
    \/ \E k \in Senders, target_id \in SendTargets :
           /\ caller[k].calls < MaxSendCalls
           /\ SendMessageCheckRunning(k, target_id, "command", "go")
    \/ \E k \in Senders : SendMessageCheckTarget(k)
    \/ \E k \in Senders : SendMessageSendall(k)
    \/ \E k \in Senders :
           /\ caller[k].calls < MaxSendCalls
           /\ BroadcastMessageCheckRunning(k, "notice", "all")
    \/ \E k \in Senders : BroadcastMessageSnapshot(k)
    \/ \E k \in Senders : BroadcastMessageSendall(k)
    \/ \E c \in Conns : \E script \in SendScripts(c) : ClientConnect(c, script)
    \/ \E c \in Conns : HasNextMessage(c) /\ ClientSend(c, NextMessage(c))
    \/ \E c \in Conns : ClientClose(c)
    \/ AcceptorSteps
    \/ \E c \in Conns : HandleClientRecvFirst(c)
    \/ \E c \in Conns : HandleClientRegister(c)
    \/ \E c \in Conns : HandleClientLoop(c)
    \/ \E c \in Conns : HandleClientRecv(c)
    \/ \E c \in Conns : HandleClientFinally(c)
    \/ \E c \in Conns : HandleClientDel(c)
    \/ \E c \in Conns : HandleClientClose(c)
    \/ \E i \in DOMAIN dispatcher : ProcessMessagesLoop(i)
    \/ \E i \in DOMAIN dispatcher : ProcessMessagesGet(i)

SpecSend == InitServer /\ [][NextSend]_vars

\* the steps of the handler of the connection c
HandlerStepsOf(c) ==
    \/ HandleClientRecvFirst(c)
    \/ HandleClientRegister(c)
    \/ HandleClientLoop(c)
    \/ HandleClientRecv(c)
    \/ HandleClientPut(c)
    \/ HandleClientFinally(c)
    \/ HandleClientDel(c)
    \/ HandleClientClose(c)

\* Shutdown under the scheduler: a thread of the server, or a call that
\* has begun, that can take a step eventually takes one; the clients and
\* the begin of a call are under no obligation
Scheduling ==
    /\ \A c \in Conns : WF_vars(HandlerStepsOf(c))
    /\ WF_vars(AcceptorSteps \/ \E i \in DOMAIN acceptor : AcceptConnectionsRaise(i))
    /\ WF_vars(DispatcherSteps)
    /\ WF_vars(StartServerSteps \/ StopSteps)

SpecStopFair == InitServer /\ [][NextStop]_vars /\ Scheduling

----------------------------------------------------------------------------
(* Vocabulary of the claims                                                *)

Phase(id) == traffic_lights[id].current_phase
StartedAt(id) == traffic_lights[id].phase_start_time
TimingOf(id) == timing_dicts[traffic_lights[id].timing]
History(id) == traffic_lights[id].timing_history

\* the step is a call of the method op (Tick leaves ret as it is)
Called(op) == ret'.op = op /\ now' = now

\* the cycle green -> yellow -> red -> green
CycleSuccessor(p) ==
    CASE p = "green" -> "yellow"
      [] p = "yellow" -> "red"
      [] p = "red" -> "green"

\* the first member of the non-empty list g whose density no member exceeds
FirstMax(g) ==
    g[CHOOSE i \in 1..Len(g) :
        /\ \A j \in 1..Len(g) : traffic_densities[g[j]] <= traffic_densities[g[i]]
        /\ \A j \in 1..(i - 1) : traffic_densities[g[j]] < traffic_densities[g[i]]]

\* density above 0.7, red, and at least 5 seconds of red left
GreenWaveDue(id) ==
    /\ traffic_densities[id] > 70
    /\ Phase(id) = "red"
    /\ TimingOf(id)["red"] - (now - StartedAt(id)) >= 5

----------------------------------------------------------------------------
(* C1: timing[yellow] >= 3 in every reachable state of every signal, from  *)
(* construction on. Refuted: TrafficLight.__init__ stores the caller's     *)
(* dict as it is, so a light built from a dict with yellow = 2 has         *)
(* timing[yellow] = 2.                                                     *)
C1_YellowFloor ==
    \A id \in Registered : TimingOf(id)["yellow"] >= 3

(* C2: a signal starts in red; get_current_phase returns the phase it had  *)
(* or its cyclic successor; and every change of a signal's phase that is   *)
(* not made by force_phase on it is one step of the cycle green -> yellow  *)
(* -> red -> green, made by get_current_phase or by coordinate_lights.     *)
C2_PhaseCycle ==
    [][\A id \in LightIds :
        /\ (id \notin Registered /\ id \in Registered')
              => traffic_lights'[id].current_phase = "red"
        /\ (id \in Registered /\ Called("get_current_phase") /\ GetCurrentPhase(id))
              => /\ ret'.phase = traffic_lights'[id].current_phase
                 /\ ret'.phase \in {Phase(id), CycleSuccessor(Phase(id))}
        /\ (id \in Registered /\ id \in Registered'
               /\ traffic_lights'[id].current_phase # Phase(id))
              => \/ \E p \in PhaseArgs : ForcePhase(id, p)
                 \/ /\ traffic_lights'[id].current_phase = CycleSuccessor(Phase(id))
                    /\ GetCurrentPhase(id) \/ CoordinateLights]_vars

\* L2, which no caller forces, has gone green -> yellow in a get_current_phase
C2_Witness ==
    /\ "L2" \in Registered
    /\ ret = Ret("get_current_phase", "L2", "yellow", TRUE)
    /\ StartedAt("L2") = now

E2EReady ==
    /\ Registered = E2EIds
    /\ \E k \in 1..Len(coordination_groups) : coordination_groups[k] = E2EGroup
    /\ \A id \in E2EIds : traffic_densities[id] = E2EDensity(id)

(* C4, as claimed: in the end-to-end scenario L1 is green when             *)
(* coordinate_lights returns. Refuted: L1 yellow, or red with less than 5  *)
(* seconds left, is left as it is.                                         *)
C4_AlwaysGreen ==
    [][(Called("coordinate_lights") /\ CoordinateLights /\ E2EReady) => traffic_lights'["L1"].current_phase = "green"]_vars

(* C4, amended: in the end-to-end scenario, when coordinate_lights returns *)
(* L1 is green unless it was yellow, or red with less than 5 seconds left, *)
(* before the call, and then its phase is unchanged; an L1 that was green  *)
(* before the call is left as it was.                                      *)
C4_GreenUnlessYellowOrDue ==
    [][(Called("coordinate_lights") /\ CoordinateLights /\ E2EReady) =>
        /\ IF \/ Phase("L1") = "yellow"
              \/ /\ Phase("L1") = "red"
                 /\ TimingOf("L1")["red"] - (now - StartedAt("L1")) < 5
           THEN traffic_lights'["L1"].current_phase = Phase("L1")
           ELSE traffic_lights'["L1"].current_phase = "green"
        /\ Phase("L1") = "green" => traffic_lights'["L1"] = traffic_lights["L1"]]_vars

\* coordinate_lights has run in the scenario and L1 is green since this instant
C4_Witness ==
    /\ E2EReady
    /\ ret.op = "coordinate_lights"
    /\ Phase("L1") = "green"
    /\ StartedAt("L1") = now
    /\ now = 12

(* C5: in coordinate_lights the member selected for a group is one of      *)
(* maximum density, and the first such in the group's list: no earlier     *)
(* member has an equal or higher density; and no other light of the group  *)
(* is forced.                                                              *)
C5_SelectsFirstMax ==
    [][(Called("coordinate_lights") /\ CoordinateLights) =>
        /\ \A k \in 1..Len(coordination_groups) :
               LET g == coordination_groups[k]
                   sel == MaxDensityLight(g)
               IN  \E i \in 1..Len(g) :
                       /\ g[i] = sel
                       /\ \A j \in 1..Len(g) : traffic_densities[g[j]] <= traffic_densities[sel]
                       /\ \A j \in 1..(i - 1) : traffic_densities[g[j]] < traffic_densities[sel]
        /\ \A id \in Registered :
               traffic_lights'[id] # traffic_lights[id] =>
                   \E k \in 1..Len(coordination_groups) :
                       FirstMax(coordination_groups[k]) = id]_vars

\* coordinate_lights has run on a group whose two members have the same density
C5_Witness ==
    /\ ret.op = "coordinate_lights"
    /\ \E k \in 1..Len(coordination_groups) :
           LET g == coordination_groups[k]
           IN  /\ Len(g) = 2
               /\ g[1] # g[2]
               /\ traffic_densities[g[1]] = traffic_densities[g[2]]

(* C6: every timing table has exactly the phases red, yellow and green and *)
(* every duration is > 0. Refuted: adjust_timing stores any value for red  *)
(* and green, so adjust_timing('red', 0) leaves timing[red] = 0.           *)
C6_DurationsPositive ==
    \A id \in Registered :
        /\ DOMAIN TimingOf(id) = {"red", "yellow", "green"}
        /\ \A p \in DOMAIN TimingOf(id) : TimingOf(id)[p] > 0

(* C7: adjust_timing('yellow', x) leaves timing[yellow] = 3 when x < 3 and *)
(* timing[yellow] = x when x >= 3; for red and green it stores x as it is. *)
C7_YellowClamp ==
    [][\A id \in LightIds, p \in Phases, x \in Seconds :
        (id \in Registered /\ Called("adjust_timing") /\ AdjustTiming(id, p, x)) =>
            timing_dicts'[traffic_lights[id].timing][p] =
                IF p = "yellow" /\ x < 3 THEN 3 ELSE x]_vars

\* adjust_timing('yellow', x) has just stored 3, which no caller passes
C7_Witness ==
    /\ ret.op = "adjust_timing" /\ ret.phase = "yellow" /\ ret.ok
    /\ History(ret.id) # <<>>
    /\ History(ret.id)[Len(History(ret.id))].phase = "yellow"
    /\ History(ret.id)[Len(History(ret.id))].new_value = 3
    /\ TimingOf(ret.id)["yellow"] = 3

(* C8: adjust_timing with a phase outside {red, yellow, green} reports     *)
(* failure and changes neither a timing table nor a history; with a phase  *)
(* in {red, yellow, green} it reports success, stores the value and        *)
(* appends one record.                                                     *)
C8_InvalidPhase ==
    [][\A id \in LightIds, p \in PhaseArgs, x \in Seconds :
        (id \in Registered /\ Called("adjust_timing") /\ AdjustTiming(id, p, x)) =>
            IF p \in {"red", "yellow", "green"}
            THEN /\ ret'.ok
                 /\ Len(traffic_lights'[id].timing_history) = Len(History(id)) + 1
            ELSE /\ ~ret'.ok
                 /\ timing_dicts' = timing_dicts
                 /\ traffic_lights' = traffic_lights]_vars

\* adjust_timing has just refused a phase
C8_Witness ==
    /\ ret.op = "adjust_timing" /\ ret.phase = "blue" /\ ~ret.ok

(* C9: timing_history is append-only and, for one signal and one phase,    *)
(* each record's old_value is the new_value of the previous record for     *)
(* that phase. Refuted for two lights built from one dict (C35): an        *)
(* adjustment of the other light changes the shared value in between.      *)
C9_HistoryChain ==
    \A id \in Registered :
        \A i, j \in 1..Len(History(id)) :
            (/\ i < j
             /\ History(id)[i].phase = History(id)[j].phase
             /\ \A k \in (i + 1)..(j - 1) : History(id)[k].phase # History(id)[i].phase)
            => History(id)[j].old_value = History(id)[i].new_value

(* C10: force_phase with a phase outside {red, yellow, green} reports      *)
(* failure and leaves the light unchanged; with a valid phase it reports   *)
(* success, sets the phase and resets phase_start_time to now, whatever    *)
(* the phase was.                                                          *)
C10_ForcePhase ==
    [][\A id \in LightIds, p \in PhaseArgs :
        (id \in Registered /\ Called("force_phase") /\ ForcePhase(id, p)) =>
            IF p \in {"red", "yellow", "green"}
            THEN /\ ret'.ok
                 /\ traffic_lights'[id].current_phase = p
                 /\ traffic_lights'[id].phase_start_time = now
            ELSE /\ ~ret'.ok
                 /\ traffic_lights' = traffic_lights]_vars

\* force_phase has just forced a light to a phase, later than its registration
C10_Witness ==
    /\ ret.op = "force_phase" /\ ret.ok
    /\ Phase(ret.id) = ret.phase
    /\ StartedAt(ret.id) = now
    /\ now > 0

----------------------------------------------------------------------------
(* Vocabulary of the claims on the calculator                              *)

Window == calculator.vehicle_counts
DensityHistory == calculator.density_history
Threshold == calculator.congestion_threshold

\* v units are min(1, mean(w) / congestion_threshold)
IsDensityOf(v, w) ==
    IF w = <<>> THEN v = 0
    ELSE IF SumSeq(w) >= Len(w) * Threshold THEN v = One(calculator)
    ELSE v * Len(w) * Threshold = SumSeq(w) * One(calculator)

\* the five most recent values of densityHistory (there are at least five)
Last5 == [i \in 1..5 |-> DensityHistory[Len(DensityHistory) - 5 + i]]

\* ten times the least-squares slope of y[1..5] against x = 0..4, in units
TenSlopes(y) == 2 * y[5] + y[4] - y[2] - 2 * y[1]

StrictlyIncreasing(y) == \A i \in 1..(Len(y) - 1) : y[i] < y[i + 1]

C12_WindowFifo ==
    [][/\ \A c \in VehicleCounts(calculator) :
              (result'.op = "update" /\ Update(c)) =>
                  LET w == calculator'.vehicle_counts
                  IN  /\ Len(w) = Min(Len(calculator'.density_history),
                                      calculator.window_size)
                      /\ w[Len(w)] = c
                      /\ \A i \in 1..(Len(w) - 1) :
                             w[i] = Window[Len(Window) - (Len(w) - 1) + i]
                      /\ IsDensityOf(result'.value, w)
                      /\ calculator'.density_history[Len(calculator'.density_history)]
                             = result'.value
       /\ (result'.op = "calculate_density" /\ CalculateDensityCall) =>
              /\ IsDensityOf(result'.value, Window)
              /\ Window = <<>> => result'.value = 0]_vars

\* 5, 10, 15, 100 fed to a calculator of window 3 and threshold 15: the
\* densities were 1/3, 1/2, 2/3 and 1, and the window is 10, 15, 100
C12_Witness ==
    /\ calculator.window_size = 3 /\ Threshold = 15
    /\ DensityHistory = <<30, 45, 60, 90>>
    /\ Window = <<10, 15, 100>>
    /\ result = Result("update", One(calculator))

(* C13, as claimed: get_density_trend returns 'increasing' when the five   *)
(* most recent values of density_history are strictly increasing. Refuted: *)
(* five values that rise by less than 0.05 a step on the regression line   *)
(* give 'stable'.                                                          *)
C13_IncreasingValues ==
    (/\ result.op = "get_density_trend"
     /\ Len(DensityHistory) >= 5
     /\ StrictlyIncreasing(Last5))
    => result.value = "increasing"

(* C13, amended: with five strictly increasing most recent values,         *)
(* get_density_trend returns 'increasing' when their least-squares slope   *)
(* is above 0.05 and 'stable' when it is below 0.05.                       *)
C13_IncreasingSlope ==
    (/\ result.op = "get_density_trend"
     /\ Len(DensityHistory) >= 5
     /\ StrictlyIncreasing(Last5))
    => /\ 2 * TenSlopes(Last5) > One(calculator) => result.value = "increasing"
       /\ 2 * TenSlopes(Last5) < One(calculator) => result.value = "stable"

\* get_density_trend has returned 'increasing' for five strictly increasing
\* values, the last five of more than five
C13_Witness ==
    /\ result = Result("get_density_trend", "increasing")
    /\ Len(DensityHistory) > 5
    /\ StrictlyIncreasing(Last5)

C15_CongestionLevel ==
    result.op = "get_congestion_level" =>
        LET sum10 == 10 * SumSeq(Window)
            cap == Len(Window) * Threshold
        IN  result.value =
                IF Window = <<>> \/ sum10 < 3 * cap THEN "low"
                ELSE IF sum10 < 7 * cap THEN "medium"
                ELSE "high"

\* get_congestion_level has returned 'medium' for a density of exactly 0.3
C15_Witness ==
    /\ result = Result("get_congestion_level", "medium")
    /\ Window # <<>>
    /\ 10 * SumSeq(Window) = 3 * Len(Window) * Threshold

----------------------------------------------------------------------------
(* Vocabulary of the claims on update_traffic_density                      *)

\* the step is update_traffic_density(id, d) on a registered light
UpdatesDensity(id, d) ==
    /\ id \in Registered
    /\ Called("update_traffic_density")
    /\ UpdateTrafficDensity(id, d)

\* the timing table of the light id after the step
TimingOfNext(id) == timing_dicts'[traffic_lights'[id].timing]

\* clamp(30 + 30 * d, 15, 60), in whole seconds, for d hundredths
ClampedGreen(d) == Max(15, Min(60, (3000 + 30 * d) \div 100))

\* the members of a list of ids
Members(light_ids) == {light_ids[i] : i \in 1..Len(light_ids)}

(* C16, as claimed: update_traffic_density with a density d in [0, 1] sets *)
(* timing[green] to clamp(30 + 30 d, 15, 60) in whole seconds and          *)
(* timing[red] to max(15, 30 (1 - 0.5 d)); after every call green is in    *)
(* [15, 60] and red in [15, 30]. Refuted: red is truncated to whole        *)
(* seconds too (d = 0.5 gives 22, not 22.5), and a density below 0 gives a *)
(* red above 30.                                                           *)
C16_ExactRed ==
    [][\A id \in LightIds, d \in PolicyDensities :
        UpdatesDensity(id, d) =>
            /\ (0 <= d /\ d <= 100) =>
                   /\ TimingOfNext(id)["green"] = ClampedGreen(d)
                   /\ 200 * TimingOfNext(id)["red"] = Max(200 * 15, 30 * (200 - d))
            /\ 15 <= TimingOfNext(id)["green"] /\ TimingOfNext(id)["green"] <= 60
            /\ 15 <= TimingOfNext(id)["red"] /\ TimingOfNext(id)["red"] <= 30]_vars

(* C16, amended: update_traffic_density with a density d in [0, 1] sets    *)
(* timing[green] to clamp(30 + 30 d, 15, 60) and timing[red] to            *)
(* max(15, 30 (1 - 0.5 d)), both truncated to whole seconds: d = 0 gives   *)
(* 30 and 30, d = 1 gives 60 and 15, d = 0.5 gives 45 and 22; after such a *)
(* call green is in [15, 60] and red in [15, 30].                          *)
C16_TruncatedRed ==
    [][\A id \in LightIds, d \in PolicyDensities :
        (UpdatesDensity(id, d) /\ 0 <= d /\ d <= 100) =>
            /\ TimingOfNext(id)["green"] = ClampedGreen(d)
            /\ TimingOfNext(id)["red"] = Max(15, (30 * (200 - d)) \div 200)
            /\ d = 0 => TimingOfNext(id)["green"] = 30 /\ TimingOfNext(id)["red"] = 30
            /\ d = 100 => TimingOfNext(id)["green"] = 60 /\ TimingOfNext(id)["red"] = 15
            /\ d = 50 => TimingOfNext(id)["green"] = 45 /\ TimingOfNext(id)["red"] = 22
            /\ 15 <= TimingOfNext(id)["green"] /\ TimingOfNext(id)["green"] <= 60
            /\ 15 <= TimingOfNext(id)["red"] /\ TimingOfNext(id)["red"] <= 30]_vars

\* update_traffic_density(0.5) has just set green to 45 and red to 22
C16_Witness ==
    /\ ret.op = "update_traffic_density" /\ ret.ok
    /\ traffic_densities[ret.id] = 50
    /\ TimingOf(ret.id)["green"] = 45
    /\ TimingOf(ret.id)["red"] = 22
    /\ Len(History(ret.id)) = 2

(* C17: update_traffic_density on a registered light leaves its            *)
(* timing[yellow], phase, phase_start_time and connected_lights unchanged; *)
(* it changes only timing[green], timing[red], the light's density entry   *)
(* and its timing_history, so every other light's timing, history and      *)
(* density and the groups are as before. Refuted for lights built from one *)
(* dict (C35): the green and red of the other lights change with it.       *)
C17_Frame ==
    [][\A id \in LightIds, d \in PolicyDensities :
        UpdatesDensity(id, d) =>
            /\ TimingOfNext(id)["yellow"] = TimingOf(id)["yellow"]
            /\ traffic_lights'[id].current_phase = Phase(id)
            /\ traffic_lights'[id].phase_start_time = StartedAt(id)
            /\ traffic_lights'[id].connected_lights = traffic_lights[id].connected_lights
            /\ Registered' = Registered
            /\ coordination_groups' = coordination_groups
            /\ \A other \in Registered \ {id} :
                   /\ traffic_lights'[other] = traffic_lights[other]
                   /\ TimingOfNext(other) = TimingOf(other)
                   /\ traffic_densities'[other] = traffic_densities[other]]_vars

(* C18: update_traffic_density with an id that is not registered reports   *)
(* failure and leaves the lights, every timing table and history and every *)
(* density entry unchanged, with no entry for the unknown id; with a       *)
(* registered id it reports success.                                       *)
C18_UnknownLight ==
    [][\A id \in LightIds \cup UnknownIds, d \in PolicyDensities :
        (Called("update_traffic_density") /\ UpdateTrafficDensity(id, d)) =>
            IF id \in Registered
            THEN ret'.ok
            ELSE /\ ~ret'.ok
                 /\ traffic_lights' = traffic_lights
                 /\ timing_dicts' = timing_dicts
                 /\ traffic_densities' = traffic_densities
                 /\ id \notin DOMAIN traffic_densities'
                 /\ coordination_groups' = coordination_groups]_vars

\* update_traffic_density has just failed while a light with a history exists
C18_Witness ==
    /\ ret.op = "update_traffic_density" /\ ~ret.ok
    /\ ret.id \notin Registered
    /\ \E id \in Registered : History(id) # <<>>

(* C19: add_traffic_light with an id already registered leaves the light   *)
(* (phase, phase_start_time, timing, timing_history, connected_lights) and *)
(* its density unchanged, whatever timing dict is passed, and the registry *)
(* and every other light as they were.                                     *)
C19_AddIdempotent ==
    [][\A id \in LightIds, r \in {None, "config"} :
        (id \in Registered /\ Called("add_traffic_light") /\ AddTrafficLight(id, r)) =>
            /\ traffic_lights' = traffic_lights
            /\ timing_dicts' = timing_dicts
            /\ traffic_densities' = traffic_densities
            /\ coordination_groups' = coordination_groups]_vars

\* add_traffic_light has just been called for L1, which was registered before
\* (its density had been updated) and is in a group
C19_Witness ==
    /\ ret = Ret("add_traffic_light", "L1", None, TRUE)
    /\ "L1" \in Registered
    /\ History("L1") # <<>>
    /\ traffic_densities["L1"] > 0
    /\ traffic_lights["L1"].connected_lights # <<>>

(* C20: create_coordination_group is all-or-nothing: with an unregistered  *)
(* id in the list it reports failure, stores no group and changes no       *)
(* light; otherwise it reports success, stores the list as the last group  *)
(* and sets each member's connected_lights to the other members, leaving   *)
(* the lights outside the list as they were.                               *)
C20_AllOrNothing ==
    [][\A g \in GroupLists :
        (Called("create_coordination_group") /\ CreateCoordinationGroup(g)) =>
            IF Members(g) \subseteq Registered
            THEN /\ ret'.ok
                 /\ coordination_groups' = Append(coordination_groups, g)
                 /\ \A id \in Members(g) :
                        Members(traffic_lights'[id].connected_lights) = Members(g) \ {id}
                 /\ \A id \in Registered \ Members(g) :
                        traffic_lights'[id] = traffic_lights[id]
            ELSE /\ ~ret'.ok
                 /\ coordination_groups' = coordination_groups
                 /\ traffic_lights' = traffic_lights]_vars

\* create_coordination_group has just failed with both lights registered: the
\* list was L1, L9, the registered L1 coming before the unknown id
C20_Witness ==
    /\ ret.op = "create_coordination_group" /\ ~ret.ok
    /\ LightIds \subseteq Registered
    /\ coordination_groups = <<>>

(* C21: after any sequence of create_coordination_group calls,             *)
(* connected_lights is symmetric (b is connected to a exactly when a is    *)
(* connected to b) and every two distinct members of a stored group are    *)
(* connected to each other. Refuted: a call overwrites the connected_lights  *)
(* of the members of its list, so after the lists L1, L2 and L2, L3 the    *)
(* light L1 is connected to L2 and L2 only to L3.                          *)
C21_Symmetric ==
    /\ \A a, b \in Registered :
           (b \in Members(traffic_lights[a].connected_lights))
               <=> (a \in Members(traffic_lights[b].connected_lights))
    /\ \A k \in 1..Len(coordination_groups) :
           \A a, b \in Members(coordination_groups[k]) :
               a # b => b \in Members(traffic_lights[a].connected_lights)

(* C22: when the threads of ThreadIds have added their lights and then    *)
(* updated them, in whatever interleaving, the registry holds exactly     *)
(* those lights and as many densities, and each light has the density     *)
(* and the timing table that its own update gives when it runs alone:     *)
(* green clamp(30 + 30 d, 15, 60), red max(15, 30 (1 - d / 2)) in whole   *)
(* seconds, yellow untouched, one history record per duration. After the  *)
(* adding threads alone, every light is registered with density 0.        *)
C22_NoLostEntry ==
    /\ (\A t \in ThreadIds : threads[t].pc \in {"added", "update_check", "update_store",
                                               "update_green", "update_red", "updated"})
           => /\ Registered = ThreadIds
              /\ DOMAIN traffic_densities = ThreadIds
    /\ \A t \in ThreadIds :
           threads[t].pc = "added"
               => /\ t \in Registered \cap DOMAIN traffic_densities
                  /\ traffic_densities[t] = 0
                  /\ timing_dicts[traffic_lights[t].timing] = [green |-> 30, yellow |-> 5, red |-> 30]
    /\ \A t \in ThreadIds :
           threads[t].pc = "updated"
               => LET d == threads[t].density
                  IN  /\ threads[t].ok = TRUE
                      /\ t \in Registered \cap DOMAIN traffic_densities
                      /\ traffic_densities[t] = d
                      /\ timing_dicts[traffic_lights[t].timing] =
                             [green |-> ClampedGreen(d), yellow |-> 5,
                              red |-> Max(15, (30 * (200 - d)) \div 200)]
                      /\ Len(traffic_lights[t].timing_history) = 2

\* every thread has updated its light, with two densities among them
C22_Witness ==
    /\ \A t \in ThreadIds : threads[t].pc = "updated"
    /\ {threads[t].density : t \in ThreadIds} = ThreadDensities

\* ---------------------------------------------------------------------
\* Vocabulary of the claims about the communication manager
\* ---------------------------------------------------------------------

\* the step maps id to the connection c, which it was not mapped to
NewlyMapped(id, c) ==
    /\ id \in DOMAIN client_connections'
    /\ client_connections'[id] = c
    /\ ~(id \in Mapped /\ client_connections[id] = c)

\* the ids a message may carry
Ids == {"A", "B", "", Absent}

\* the handler of c is about to look at the first message of its connection
AtFirstMessage(c) == handlers[c].pc = "register"

\* what the handler of c has read, parsed
Parsed(c) == Loads(handlers[c].data)

\* what the handler of c has read is a JSON object that carries an id
CarriesId(c) ==
    /\ Parsed(c) # JSONDecodeError
    /\ Parsed(c).syntax = "object"
    /\ Parsed(c).id # Absent

\* the handler of c takes a step
HandlerStep(c) == handlers'[c] # handlers[c]

\* in the step, a first message without an id or malformed is rejected:
\* no entry is added, the server keeps running and accepting, and the
\* handler, which has no id, goes on to close the connection
RejectsFirstMessage(c) ==
    (AtFirstMessage(c) /\ HandlerStep(c) /\ ~CarriesId(c))
        => /\ client_connections' = client_connections
           /\ running' = running
           /\ server_socket' = server_socket
           /\ acceptor' = acceptor
           /\ handlers'[c].pc = "finally"
           /\ handlers'[c].client_id = None

\* after the step, a handler that has ended without an id has closed its
\* connection
RejectedIsClosed(c) ==
    (handlers'[c].pc = "done" /\ handlers'[c].client_id = None)
        => connections'[c].state = "closed"

(* C23, as claimed: a connection enters the mapping only through a first   *)
(* message that is a well-formed register message (type register)          *)
(* carrying an id; a first message without id or malformed closes the      *)
(* connection, adds no entry and leaves the server running. Refuted: the   *)
(* handler never looks at the type, a first message of type command that   *)
(* carries an id registers the connection.                                 *)
C23_RegisterOnly ==
    [][\A c \in Conns :
          /\ \A id \in Ids :
                 NewlyMapped(id, c)
                     => /\ AtFirstMessage(c)
                        /\ CarriesId(c)
                        /\ Parsed(c).id = id
                        /\ Parsed(c).type = "register"
          /\ RejectsFirstMessage(c)
          /\ RejectedIsClosed(c)]_vars

(* C23, amended: a connection enters the mapping only through a first     *)
(* message that is a JSON object carrying an id, whatever its type, and   *)
(* under that id; a first message without id or malformed adds no entry,  *)
(* leaves the server running and accepting, and its connection is closed  *)
(* by the time the handler ends.                                          *)
C23_IdOnly ==
    [][\A c \in Conns :
          /\ \A id \in Ids :
                 NewlyMapped(id, c)
                     => /\ AtFirstMessage(c)
                        /\ CarriesId(c)
                        /\ Parsed(c).id = id
          /\ RejectsFirstMessage(c)
          /\ RejectedIsClosed(c)]_vars

\* the first connection has been rejected for its first message and closed,
\* the server runs and the second connection is registered
C23_Witness ==
    /\ handlers[1].pc = "done"
    /\ handlers[1].client_id = None
    /\ connections[1].sent >= 1
    /\ connections[1].inbound = <<>>
    /\ connections[1].state = "closed"
    /\ running
    /\ "B" \in Mapped
    /\ client_connections["B"] = 2

\* the handler of c has ended
Ended(c) == handlers[c].pc = "done"

\* no id is mapped to the connection c
Unmapped(c) == \A id \in Mapped : client_connections[id] # c

(* C24: once the handler of a connection has ended, on whatever path, the  *)
(* socket of the connection is closed and no id is mapped to it. Refuted:  *)
(* the finally clause removes the entry only if client_id is truthy, so a  *)
(* client registered under the id "" stays mapped to its closed socket.    *)
C24_HandlerCleansUp ==
    \A c \in Conns : Ended(c) => (connections[c].state = "closed" /\ Unmapped(c))

\* the handler of c is registered and about to process what it has read
AtMessage(c) == handlers[c].pc = "put"

\* what the handler of c has read is not a message: it cannot be parsed,
\* or it is not a JSON object
Malformed(c) == Parsed(c) = JSONDecodeError \/ Parsed(c).syntax # "object"

(* C25: a registered handler that has read a malformed message (bytes     *)
(* that are not JSON, or JSON that is not a message object) drops it and  *)
(* goes back to its loop: nothing is queued, the mapping and the          *)
(* connection are untouched. Refuted: when the bytes are valid JSON but   *)
(* not an object (an array, a number), message['sender'] = client_id      *)
(* raises, the handler leaves its loop, unmaps the id and closes.         *)
C25_MalformedDropped ==
    [][\A c \in Conns :
          (AtMessage(c) /\ HandlerStep(c) /\ Malformed(c))
              => /\ handlers'[c].pc = "loop"
                 /\ message_queue' = message_queue
                 /\ client_connections' = client_connections
                 /\ connections' = connections]_vars

\* stop() has returned and no call has been made since
Stopped == \E k \in Operators : caller[k].op = "stop" /\ caller[k].pc = "idle"

\* the state stop() is claimed to leave
ShutDown ==
    /\ ~running
    /\ Mapped = {}
    /\ server_socket # "listening"
    /\ \A c \in Conns : connections[c].state # "open"

\* the step adds an entry to the mapping
AddsEntry == \E id \in Ids, c \in Conns : NewlyMapped(id, c)

\* the step puts a message on the queue
PutsMessage == Len(message_queue') > Len(message_queue)

\* the step takes a message from the queue or processes one
Dispatches ==
    \E i \in DOMAIN dispatcher :
        /\ dispatcher'[i] # dispatcher[i]
        /\ dispatcher'[i].pc = "process" \/ dispatcher[i].pc = "process"

(* C26: once stop() has returned, running is false, the mapping is empty, *)
(* the listening socket and every connection are closed, and no step adds *)
(* an entry to the mapping, puts a message on the queue or dispatches     *)
(* one. Refuted: stop() closes only the connections that are registered   *)
(* and joins no thread; a handler that was reading registers or queues    *)
(* its message afterwards, and the dispatcher processes what it had taken.*)
C26_StopIsFinal ==
    [][(Stopped' => ShutDown')
       /\ ((Stopped /\ Stopped') => (~AddsEntry /\ ~PutsMessage /\ ~Dispatches))]_vars

\* stop() has been called and start_server() has not been called since
StopCalled == \E k \in Operators : caller[k].op = "stop"

\* every thread of the server has ended
AllEnded ==
    /\ \A c \in Conns : handlers[c].pc \in {"none", "done"}
    /\ \A i \in DOMAIN acceptor : acceptor[i] = "done"
    /\ \A i \in DOMAIN dispatcher : dispatcher[i].pc = "done"

(* C27: under the scheduler, once stop() has been called the acceptor,    *)
(* the dispatcher and every handler eventually end, whatever the clients  *)
(* do or do not write. Refuted: stop() closes the sockets of the mapping  *)
(* only, so the handler of a client that has connected and not yet        *)
(* written its first message stays in recv() for as long as the client    *)
(* stays silent.                                                          *)
C27_ThreadsEnd == StopCalled ~> (AllEnded \/ ~StopCalled)

\* the messages whose last byte is in what the handler of c has read,
\* tagged with the id of the handler
Completed(c) ==
    LET pieces == SelectSeq(handlers[c].data, LAMBDA piece : piece.part \in {0, 2})
    IN  [i \in 1..Len(pieces) |->
            [pieces[i].message EXCEPT !.sender = handlers[c].client_id]]

\* what the handler of c has read is made of well-formed message objects
WellFormed(c) ==
    \A i \in 1..Len(handlers[c].data) : handlers[c].data[i].message.syntax = "object"

(* C28: whatever the way the bytes of a registered client are cut into    *)
(* reads, each read makes the handler queue exactly the messages that the *)
(* read completes, in order: nothing for the first part of a message, the *)
(* message for its last part, every message of a read that holds several. *)
(* Refuted: the handler parses each read of at most 1024 bytes as one     *)
(* message, so two messages in one read, and both parts of a message cut  *)
(* in two, are logged as invalid JSON and lost.                           *)
C28_ExactlyOnce ==
    [][\A c \in Conns :
          (AtMessage(c) /\ HandlerStep(c) /\ WellFormed(c))
              => message_queue' = message_queue \o Completed(c)]_vars

\* the caller k takes a step of the call op
CallStep(k, op) == caller'[k] # caller[k] /\ caller'[k].op = op

\* the step begins the call op of the caller k
BeginsCall(k, op) == CallStep(k, op) /\ caller[k].pc = "idle"

\* the step is the return of the call op of the caller k, with value
ReturnsFrom(k, op, value) ==
    /\ CallStep(k, op)
    /\ caller'[k].pc = "idle"
    /\ caller'[k].returned = value

\* the step writes message to the connection c and nothing else
WritesOnly(c, message) ==
    connections' = [connections EXCEPT ![c].outbound = Append(@, message)]

\* the mapping and the sockets are as they were: nothing is unmapped,
\* nothing is closed
KeepsConnections ==
    /\ client_connections' = client_connections
    /\ \A c \in Conns : connections'[c].state = connections[c].state

\* the {type, target, data, timestamp} message of the call of the caller k
MessageTo(target_id) ==
    [syntax |-> "object", id |-> Absent, type |-> "command", target |-> target_id,
     sender |-> Absent, data |-> "go", timestamp |-> ToString(now)]

(* C29: send_message returns False and writes nothing when the server is  *)
(* not running at the call or the target is not mapped when it is looked  *)
(* up; it returns True only in a step that writes the one message {type,  *)
(* target, data, timestamp} to the connection mapped to the target and to *)
(* no other, and does so whenever that connection is open with a peer     *)
(* that reads; a return of False writes nothing; no step of the call      *)
(* changes the mapping or closes a socket.                                *)
C29_SendMessage ==
    [][\A k \in Senders :
          CallStep(k, "send_message")
              => /\ KeepsConnections
                 /\ (BeginsCall(k, "send_message") /\ ~running)
                        => (ReturnsFrom(k, "send_message", FALSE) /\ connections' = connections)
                 /\ (caller[k].pc = "check_target" /\ caller[k].target \notin Mapped)
                        => (ReturnsFrom(k, "send_message", FALSE) /\ connections' = connections)
                 /\ ReturnsFrom(k, "send_message", TRUE)
                        => /\ caller[k].pc = "sendall"
                           /\ caller[k].target \in Mapped
                           /\ WritesOnly(client_connections[caller[k].target],
                                         MessageTo(caller[k].target))
                 /\ ReturnsFrom(k, "send_message", FALSE) => connections' = connections
                 /\ (/\ caller[k].pc = "sendall"
                     /\ caller[k].target \in Mapped
                     /\ connections[client_connections[caller[k].target]].state = "open"
                     /\ ~connections[client_connections[caller[k].target]].peer_closed)
                        => ReturnsFrom(k, "send_message", TRUE)
                 /\ caller'[k].pc # "idle" => connections' = connections]_vars

\* send_message has returned True for the target A, whose connection holds
\* the message
C29_Witness ==
    \E k \in Senders :
        /\ caller[k].op = "send_message"
        /\ caller[k].pc = "idle"
        /\ caller[k].returned = TRUE
        /\ "A" \in Mapped
        /\ connections[client_connections["A"]].outbound = <<MessageTo("A")>>
        /\ \A c \in Conns \ {client_connections["A"]} : connections[c].outbound = <<>>

\* the message of the broadcast of the caller k
Notice ==
    [syntax |-> "object", id |-> Absent, type |-> "notice", target |-> Absent,
     sender |-> Absent, data |-> "all", timestamp |-> ToString(now)]

\* the items of the mapping
Items == {<<id, client_connections[id]>> : id \in Mapped}

\* the step is one attempt to write to the client item of the snapshot of
\* the caller k: the message reaches the connection of the item and no
\* other, or the failure is logged and nothing is written; the item
\* leaves the snapshot, the other items stay
AttemptsWrite(k, item) ==
    /\ caller'[k].snapshot = caller[k].snapshot \ {item}
    /\ caller'[k].pc = "sendall"
    /\ \/ /\ WritesOnly(item[2], Notice)
          /\ caller'[k].failures = caller[k].failures
       \/ /\ connections' = connections
          /\ caller'[k].failures = caller[k].failures + 1

(* C30: broadcast_message writes nothing when the server is not running   *)
(* at the call; otherwise it takes the items of the mapping as they are   *)
(* when its loop begins and makes exactly one attempt to write the same   *)
(* message to each of them: every step of the loop takes one item out,    *)
(* whether its write succeeds or fails, the call returns (without         *)
(* raising) only once no item is left, and no step of the call changes    *)
(* the mapping or closes a socket, while handlers register and end.       *)
C30_Broadcast ==
    [][\A k \in Senders :
          CallStep(k, "broadcast_message")
              => /\ KeepsConnections
                 /\ (BeginsCall(k, "broadcast_message") /\ ~running)
                        => (ReturnsFrom(k, "broadcast_message", None)
                            /\ connections' = connections)
                 /\ (BeginsCall(k, "broadcast_message") /\ running)
                        => (caller'[k].pc = "snapshot" /\ connections' = connections)
                 /\ caller[k].pc = "snapshot"
                        => /\ caller'[k].snapshot = Items
                           /\ caller'[k].pc = "sendall"
                           /\ caller'[k].message = Notice
                           /\ caller'[k].failures = 0
                           /\ connections' = connections
                 /\ (caller[k].pc = "sendall" /\ caller[k].snapshot # {})
                        => \E item \in caller[k].snapshot : AttemptsWrite(k, item)
                 /\ (caller[k].pc = "sendall" /\ caller[k].snapshot = {})
                        => (ReturnsFrom(k, "broadcast_message", None)
                            /\ connections' = connections)]_vars

\* a broadcast to two clients has returned: the write to one has failed,
\* the other has the message
C30_Witness ==
    \E k \in Senders :
        /\ caller[k].op = "broadcast_message"
        /\ caller[k].pc = "idle"
        /\ caller[k].failures = 1
        /\ \E c \in Conns :
               /\ connections[c].outbound = <<Notice>>
               /\ \A other \in Conns \ {c} : connections[other].outbound = <<>>

\* the step is a call of adjust_timing or update_traffic_density on the
\* registered light id
TimingCallOn(id) ==
    /\ id \in Registered
    /\ now' = now
    /\ ret'.op \in {"adjust_timing", "update_traffic_density"}
    /\ ret'.id = id

(* C35: adjust_timing or update_traffic_density on one registered light    *)
(* leaves the timing table and the timing_history of every other light     *)
(* unchanged, also when the lights were registered with the same initial   *)
(* timing. Refuted: TrafficLight.__init__ keeps the caller's dict          *)
(* (self.timing = initial_timing), so lights registered with one dict      *)
(* share one table and an adjustment of one is an adjustment of all.       *)
C35_OtherTablesUnchanged ==
    [][\A id \in LightIds :
          TimingCallOn(id)
              => \A other \in Registered \ {id} :
                     /\ TimingOfNext(other) = TimingOf(other)
                     /\ traffic_lights'[other].timing_history = History(other)]_vars

\* the step is a call of force_phase, or of coordinate_lights, which
\* overrides through force_phase
Forces == Called("force_phase") \/ Called("coordinate_lights")

\* the current phase of id has lasted its stored duration
TransitionDue(id) == now - StartedAt(id) >= TimingOf(id)[Phase(id)]

\* the step is a get_current_phase call on id
ReadsPhase(id) == Called("get_current_phase") /\ ret'.id = id

(* C39: without force_phase a signal leaves a phase only through a         *)
(* get_current_phase call made when at least timing[phase] seconds (as     *)
(* stored at the call) have passed since phase_start_time; such a call     *)
(* makes exactly one transition and sets phase_start_time to the time of   *)
(* the call; an earlier call changes neither; get_time_remaining is never  *)
(* negative and is 0 exactly when such a transition is due.                *)
C39_LeavesPhaseWhenDue ==
    /\ [](\A id \in Registered :
              /\ TimeRemaining(traffic_lights[id]) >= 0
              /\ TimeRemaining(traffic_lights[id]) = 0 <=> TransitionDue(id))
    /\ [][\A id \in Registered :
              /\ (~Forces /\ <<Phase(id), StartedAt(id)>> #
                                <<traffic_lights'[id].current_phase,
                                  traffic_lights'[id].phase_start_time>>)
                    => ReadsPhase(id) /\ TransitionDue(id)
              /\ (ReadsPhase(id) /\ TransitionDue(id))
                    => /\ traffic_lights'[id].current_phase = CycleSuccessor(Phase(id))
                       /\ traffic_lights'[id].phase_start_time = now
              /\ (ReadsPhase(id) /\ ~TransitionDue(id))
                    => /\ traffic_lights'[id].current_phase = Phase(id)
                       /\ traffic_lights'[id].phase_start_time = StartedAt(id)]_vars

\* L2, which nothing has forced, has left red in a get_current_phase made
\* after red had lasted its duration
C39_Witness ==
    /\ "L2" \in Registered
    /\ traffic_densities["L2"] = 0
    /\ ret = Ret("get_current_phase", "L2", "green", TRUE)
    /\ StartedAt("L2") = now
    /\ now > 0

----------------------------------------------------------------------------
\* coordinate_lights over up to two groups that may share a light: three
\* lights registered at start-up with timing dicts of their own, densities
\* set by update_traffic_density, phases read as time passes
NextCoordinate ==
    \/ \E id \in GroupedIds : now = 0 /\ AddTrafficLight(id, None)
    \/ \E g \in SharingGroupLists :
           /\ now = 0
           /\ Len(coordination_groups) < MaxGroupCalls
           /\ CreateCoordinationGroup(g)
    \/ \E id \in GroupedIds, d \in Densities :
           /\ now = 0
           /\ HistoryRoom(2, MaxPolicyHist)
           /\ UpdateTrafficDensity(id, d)
    \/ \E id \in GroupedIds : GetCurrentPhase(id)
    \/ CoordinateLights
    \/ \E d \in TickSteps : now + d <= MaxTimingTime /\ Tick(d)

SpecCoordinate == Init /\ [][NextCoordinate]_vars

\* the step changes the phase or the phase_start_time of id
Moves(id) ==
    <<traffic_lights'[id].current_phase, traffic_lights'[id].phase_start_time>> #
        <<Phase(id), StartedAt(id)>>

\* the step leaves all but the phases and their start times as they are
KeepsTables ==
    /\ timing_dicts' = timing_dicts
    /\ traffic_densities' = traffic_densities
    /\ coordination_groups' = coordination_groups
    /\ Registered' = Registered
    /\ \A id \in Registered :
           /\ traffic_lights'[id].timing = traffic_lights[id].timing
           /\ traffic_lights'[id].timing_history = History(id)
           /\ traffic_lights'[id].connected_lights = traffic_lights[id].connected_lights

\* the lights coordinate_lights moves are forced to green at the time of the call
MovesOnlyToGreen ==
    \A id \in Registered :
        Moves(id) => /\ traffic_lights'[id].current_phase = "green"
                     /\ traffic_lights'[id].phase_start_time = now

(* C40, as claimed: coordinate_lights changes at most one signal of each   *)
(* stored group, only by forcing it to green, changes no timing table,     *)
(* timing_history, density, connected_lights or group, and leaves phase    *)
(* and phase_start_time of every member of a group other than the group's  *)
(* selected maximum-density member unchanged. Refuted by two groups that   *)
(* share a light: the light is forced as the densest of one group while it *)
(* is a member, and not the densest, of the other.                         *)
C40_OnePerGroup ==
    [][(Called("coordinate_lights") /\ CoordinateLights) =>
          /\ MovesOnlyToGreen
          /\ KeepsTables
          /\ \A k \in 1..Len(coordination_groups) :
                 /\ Cardinality({m \in Members(coordination_groups[k]) : Moves(m)}) <= 1
                 /\ \A m \in Members(coordination_groups[k]) :
                        m # FirstMax(coordination_groups[k]) => ~Moves(m)]_vars

(* C40, amended: coordinate_lights changes at most as many signals as      *)
(* there are stored groups, each the selected maximum-density member of a  *)
(* stored group, and only by forcing it to green; it changes no timing     *)
(* table, timing_history, density, connected_lights or group, and leaves   *)
(* phase and phase_start_time of every signal that is not the selected     *)
(* maximum-density member of any stored group unchanged.                   *)
C40_OnlySelectedMembers ==
    [][(Called("coordinate_lights") /\ CoordinateLights) =>
          /\ MovesOnlyToGreen
          /\ KeepsTables
          /\ Cardinality({id \in Registered : Moves(id)}) <= Len(coordination_groups)
          /\ \A id \in Registered :
                 Moves(id) => \E k \in 1..Len(coordination_groups) :
                                  id = FirstMax(coordination_groups[k])]_vars

\* coordinate_lights has just forced L1, the first of the densest of
\* <<L1, L2>>, and L2, the densest of <<L2, L3>>, in one call (the densities
\* were set at time 0), and left L3 red since the start
C40_Witness ==
    /\ ret.op = "coordinate_lights"
    /\ coordination_groups = <<<<"L1", "L2">>, <<"L2", "L3">>>>
    /\ traffic_densities = [L1 |-> 85, L2 |-> 85, L3 |-> 0]
    /\ now = 12
    /\ \A id \in {"L1", "L2"} : Phase(id) = "green" /\ StartedAt(id) = 12
    /\ Phase("L3") = "red" /\ StartedAt("L3") = 0

----------------------------------------------------------------------------
\* the messages a client writes after its id in the queueing scenario
MaxQueued == 3

\* The client of the first connection registers and writes MaxQueued
\* status updates
QueueScripts(c) ==
    IF c = 1
    THEN {<<RegisterA>> \o [i \in 1..MaxQueued |-> StatusUpdateWith(ToString(i))]}
    ELSE {}

\* Queueing: the server is started, a client registers and writes its
\* status updates as fast as it likes, the dispatcher takes them when it
\* is scheduled
NextQueue ==
    \/ \E k \in Operators : caller[k].calls < MaxStartCalls /\ StartServerCheck(k)
    \/ StartServerSteps
    \/ \E c \in Conns : \E script \in QueueScripts(c) : ClientConnect(c, script)
    \/ \E c \in Conns : HasNextMessage(c) /\ ClientSend(c, NextMessage(c))
    \/ \E c \in Conns : ClientClose(c)
    \/ AcceptorSteps
    \/ HandlerSteps
    \/ DispatcherSteps

SpecQueue == InitServer /\ [][NextQueue]_vars

(* C33: the dispatch queue is bounded: the number of queued, not yet       *)
(* dispatched messages never exceeds a fixed capacity, however fast the    *)
(* clients send and however slow the dispatch loop is. Refuted for every   *)
(* capacity: message_queue = queue.Queue() has no maxsize, put() never     *)
(* blocks or fails, and the queue holds all the messages a client has      *)
(* written, however many (here MaxQueued), while the dispatcher takes none.*)
C33_QueueBounded == Len(message_queue) < MaxQueued

----------------------------------------------------------------------------
\* Messages of the dispatch scenario: what a client writes after its id,
\* with a sender of its own choosing in the payload
CommandTo(target, sender) == [Object(Absent, "command", target) EXCEPT !.sender = sender]
ForgedStatusUpdate == [StatusUpdate EXCEPT !.sender = "A"]
UnknownType == Object(Absent, "reset", Absent)

\* The first client registers as A and writes commands for B (signed as
\* B), for C, which never connects, a status update and a message of no
\* known type; the second registers as B and writes a status update
\* signed as A, or writes such updates without registering
DispatchScripts(c) ==
    IF c = 1
    THEN {<<RegisterA, CommandTo("B", "B"), StatusUpdate>>,
          <<RegisterA, CommandTo("C", Absent), CommandTo("B", "B")>>,
          <<RegisterA, UnknownType, CommandTo("B", "B")>>}
    ELSE {<<RegisterB, ForgedStatusUpdate>>, <<ForgedStatusUpdate, ForgedStatusUpdate>>}

\* Dispatch: the server is started, the clients of DispatchScripts
\* connect and write, the second may close
NextDispatch ==
    \/ \E k \in Operators : caller[k].calls < MaxStartCalls /\ StartServerCheck(k)
    \/ StartServerSteps
    \/ \E c \in Conns : \E script \in DispatchScripts(c) : ClientConnect(c, script)
    \/ \E c \in Conns : HasNextMessage(c) /\ ClientSend(c, NextMessage(c))
    \/ \E c \in Conns : c = 2 /\ ClientClose(c)
    \/ AcceptorSteps
    \/ HandlerSteps
    \/ DispatcherSteps

SpecDispatch == InitServer /\ [][NextDispatch]_vars

\* the dispatcher i takes a message from the queue in the step
Takes(i) == dispatcher[i].pc = "get" /\ dispatcher'[i].pc = "process"

\* the dispatcher i handles the message it has taken in the step
Handles(i) == dispatcher[i].pc = "process" /\ dispatcher'[i] # dispatcher[i]

\* the message is a command whose target is in the mapping
ForMappedTarget(message) == message.type = "command" /\ message.target \in Mapped

\* nothing stands in the way of a write to the entry of id: its socket is
\* open, its peer has not closed and no handler is about to delete it
Writable(id) ==
    /\ connections[client_connections[id]].state = "open"
    /\ ~connections[client_connections[id]].peer_closed
    /\ \A c \in Conns : ~(handlers[c].pc = "del" /\ handlers[c].client_id = id)

(* C31: the dispatch loop takes the queued messages one at a time, oldest  *)
(* first, and handles each exactly once: a command whose target is in the  *)
(* mapping is written unchanged to the connection of the target and to no  *)
(* other (or the write fails, an error is logged and nothing is written);  *)
(* a command whose target is absent, a status update and a message of      *)
(* unknown type cause no write; after handling a message, also after a     *)
(* failed write, the loop goes on, and it ends only when it finds running  *)
(* false.                                                                  *)
C31_DispatchLoop ==
    [][/\ (message_queue' # message_queue /\ ~PutsMessage)
             => \E i \in DOMAIN dispatcher : Takes(i)
       /\ \A i \in DOMAIN dispatcher :
            /\ Takes(i) => /\ message_queue # <<>>
                           /\ dispatcher'[i].message = Head(message_queue)
                           /\ message_queue' = Tail(message_queue)
            /\ Handles(i) =>
                 LET message == dispatcher[i].message
                 IN  /\ dispatcher'[i].pc = "loop"
                     /\ dispatcher'[i].message = None
                     /\ message_queue' = message_queue
                     /\ IF ForMappedTarget(message)
                        THEN \/ /\ WritesOnly(client_connections[message.target], message)
                                /\ dispatcher'[i].errors = dispatcher[i].errors
                             \/ /\ ~Writable(message.target)
                                /\ connections' = connections
                                /\ dispatcher'[i].errors = dispatcher[i].errors + 1
                        ELSE /\ connections' = connections
                             /\ dispatcher'[i].errors = dispatcher[i].errors
            /\ (dispatcher[i].pc = "loop" /\ dispatcher'[i] # dispatcher[i])
                 => dispatcher'[i].pc = IF running THEN "get" ELSE "done"
            /\ dispatcher'[i].pc = "done" => dispatcher[i].pc \in {"loop", "done"}]_vars

\* the dispatcher has taken A's status update after its write of A's
\* command to B failed
C31_Witness ==
    \E i \in DOMAIN dispatcher :
        /\ dispatcher[i].pc = "process"
        /\ dispatcher[i].errors = 1
        /\ dispatcher[i].message.type = "status_update"
        /\ dispatcher[i].message.sender = "A"
        /\ connections[2].outbound = <<>>
        /\ running

\* the id the connection c has registered: the id of its first message,
\* which its handler keeps as client_id
RegisteredId(c) == connections[c].script[1].id

\* the connection c has registered an id
HasRegistered(c) ==
    /\ connections[c].script # <<>>
    /\ RegisteredId(c) # Absent
    /\ handlers[c].client_id = RegisteredId(c)

(* C32: every message put on the dispatch queue carries as sender the id   *)
(* registered by the connection it arrived on, whatever sender the client  *)
(* wrote in the payload (the rest of the payload is kept); no message is   *)
(* put on the queue from a connection that has not registered.             *)
C32_SenderIsRegisteredId ==
    [][PutsMessage =>
          \E c \in Conns :
              /\ HandlerStep(c)
              /\ HasRegistered(c)
              /\ Parsed(c) # JSONDecodeError
              /\ message_queue' =
                     Append(message_queue, [Parsed(c) EXCEPT !.sender = RegisteredId(c)])]_vars

\* on the queue: the status update that B wrote with sender A, now with
\* sender B
C32_Witness ==
    \E i \in 1..Len(message_queue) :
        /\ message_queue[i].type = "status_update"
        /\ message_queue[i].sender = "B"
        /\ connections[2].script[2].sender = "A"

----------------------------------------------------------------------------
\* Two clients register the same id
DuplicateScripts(c) == {<<RegisterA>>}

\* Duplicate ids: the server is started, the clients of DuplicateScripts
\* connect, register and close
NextDuplicate ==
    \/ \E k \in Operators : caller[k].calls < MaxStartCalls /\ StartServerCheck(k)
    \/ StartServerSteps
    \/ \E c \in Conns : \E script \in DuplicateScripts(c) : ClientConnect(c, script)
    \/ \E c \in Conns : HasNextMessage(c) /\ ClientSend(c, NextMessage(c))
    \/ \E c \in Conns : ClientClose(c)
    \/ AcceptorSteps
    \/ \E c \in Conns : HandleClientRecvFirst(c)
    \/ \E c \in Conns : HandleClientRegister(c)
    \/ \E c \in Conns : HandleClientLoop(c)
    \/ \E c \in Conns : HandleClientRecv(c)
    \/ \E c \in Conns : HandleClientFinally(c)
    \/ \E c \in Conns : HandleClientDel(c)
    \/ \E c \in Conns : HandleClientClose(c)
    \/ \E i \in DOMAIN dispatcher : ProcessMessagesLoop(i)
    \/ \E i \in DOMAIN dispatcher : ProcessMessagesGet(i)

SpecDuplicate == InitServer /\ [][NextDuplicate]_vars

\* the handler of c has registered an id and has not begun to end
Live(c) == handlers[c].pc \in {"loop", "recv", "put"}

(* C36: while the server is running, every connection whose handler has    *)
(* registered an id and has not ended is mapped under that id, and the end *)
(* of a handler removes no entry but that of its own connection. Refuted:  *)
(* a second registration of an id replaces the entry of the first          *)
(* connection, and the handler of either deletes the entry by its id,      *)
(* whichever connection it maps.                                           *)
C36_LiveHandlersMapped ==
    /\ [](running =>
            \A c \in Conns :
                Live(c) => /\ handlers[c].client_id \in Mapped
                           /\ client_connections[handlers[c].client_id] = c)
    /\ [][\A c \in Conns :
              (handlers[c].pc = "del" /\ HandlerStep(c))
                  => \A id \in Mapped :
                         client_connections[id] # c => /\ id \in DOMAIN client_connections'
                                                       /\ client_connections'[id] =
                                                              client_connections[id]]_vars

----------------------------------------------------------------------------
\* the port of the server is held by a socket other than the one a
\* start_server call creates: the socket of an earlier or concurrent call,
\* or a closed one on which a thread is still blocked in accept()
PortInUse ==
    \/ server_socket = "listening"
    \/ server_socket = "closed" /\ \E i \in DOMAIN acceptor : acceptor[i] = "accept"

\* start_server: bind or listen raises OSError; the except clause resets
\* running and re-raises.  self.server_socket is by then the socket of
\* this call, which does not listen (kept is FALSE), or a socket another
\* call has bound in the meantime (kept is TRUE)
StartServerListenRaise(k) ==
    /\ caller[k].op = "start_server"
    /\ caller[k].pc = "listen"
    /\ PortInUse
    /\ \E kept \in BOOLEAN :
           server_socket' = IF kept THEN server_socket ELSE "closed"
    /\ running' = FALSE
    /\ caller' = [caller EXCEPT ![k] = Returned(k, "start_server", "OSError")]
    /\ UNCHANGED <<client_connections, message_queue, connections, handlers,
                   acceptor, dispatcher>>
    /\ ServerFrame

\* Starting: two threads call start_server, at any time and each at most
\* MaxStartCalls times; nobody calls stop; the clients of SendScripts
\* register
NextStart ==
    \/ \E k \in Callers : caller[k].calls < MaxStartCalls /\ StartServerCheck(k)
    \/ \E k \in Callers : StartServerListen(k)
    \/ \E k \in Callers : StartServerListenRaise(k)
    \/ \E k \in Callers : StartServerSetRunning(k)
    \/ \E k \in Callers : StartServerSpawnAccept(k)
    \/ \E k \in Callers : StartServerSpawnProcess(k)
    \/ \E c \in Conns : \E script \in SendScripts(c) : ClientConnect(c, script)
    \/ \E c \in Conns : HasNextMessage(c) /\ ClientSend(c, NextMessage(c))
    \/ AcceptorSteps
    \/ \E i \in DOMAIN acceptor : AcceptConnectionsRaise(i)
    \/ \E c \in Conns : HandleClientRecvFirst(c)
    \/ \E c \in Conns : HandleClientRegister(c)
    \/ \E c \in Conns : HandleClientLoop(c)
    \/ \E c \in Conns : HandleClientFinally(c)
    \/ \E c \in Conns : HandleClientDel(c)
    \/ \E c \in Conns : HandleClientClose(c)
    \/ \E i \in DOMAIN dispatcher : ProcessMessagesLoop(i)
    \/ \E i \in DOMAIN dispatcher : ProcessMessagesGet(i)

SpecStart == InitServer /\ [][NextStart]_vars

\* the step leaves the server as it is: flag, listening socket, mapping,
\* queue, connections and threads
KeepsServer ==
    UNCHANGED <<running, server_socket, client_connections, message_queue,
                connections, handlers, acceptor, dispatcher>>

(* C34: start_server is idempotent while the server is running: a call     *)
(* that finds it running returns at once and changes nothing, and, also    *)
(* when two calls are made concurrently, no call spawns a second acceptor  *)
(* or dispatcher, replaces the listening socket or turns the server off    *)
(* (nobody calls stop here). Refuted: 'if self.running' and 'self.running  *)
(* = True' are not one step, so two concurrent calls both pass the test;   *)
(* both then bind and spawn, or the later one raises and resets running.   *)
C34_StartIdempotent ==
    /\ [][\A k \in Callers :
              (BeginsCall(k, "start_server") /\ running)
                  => /\ ReturnsFrom(k, "start_server", None)
                     /\ KeepsServer]_vars
    /\ [](Len(acceptor) <= 1 /\ Len(dispatcher) <= 1)
    /\ [][/\ running => running'
          /\ server_socket = "listening" => UNCHANGED server_socket]_vars

----------------------------------------------------------------------------
\* the start_server and stop calls of the restart scenario
MaxRunCalls == 3

\* One client registers and writes a status update
RestartScripts(c) == IF c = 1 THEN {<<RegisterA, StatusUpdate>>} ELSE {}

\* Restart: one thread calls start_server and stop, one call after
\* another and in any order, while a client connects and writes
NextRestart ==
    \/ \E k \in Operators : caller[k].calls < MaxRunCalls /\ StartServerCheck(k)
    \/ StartServerSteps
    \/ \E k \in Operators : StartServerListenRaise(k)
    \/ \E k \in Operators : caller[k].calls < MaxRunCalls /\ StopSetRunning(k)
    \/ StopSteps
    \/ \E c \in Conns : \E script \in RestartScripts(c) : ClientConnect(c, script)
    \/ \E c \in Conns : HasNextMessage(c) /\ ClientSend(c, NextMessage(c))
    \/ AcceptorSteps
    \/ \E i \in DOMAIN acceptor : AcceptConnectionsRaise(i)
    \/ HandlerSteps
    \/ DispatcherSteps

SpecRestart == InitServer /\ [][NextRestart]_vars

\* the acceptor and the dispatcher threads that have not ended
LiveAcceptors == {i \in DOMAIN acceptor : acceptor[i] # "done"}
LiveDispatchers == {i \in DOMAIN dispatcher : dispatcher[i].pc # "done"}

\* the acceptor i accepts a connection in the step
Accepts(i) ==
    /\ acceptor[i] = "accept"
    /\ acceptor'[i] = "loop"
    /\ \E c \in Conns : connections[c].state = "pending" /\ connections'[c].state = "open"

(* C38: across the start_server and stop calls of one thread, at most one  *)
(* acceptor and at most one dispatcher are live at any time, and a loop    *)
(* spawned by an earlier start_server accepts no connection and takes no   *)
(* message once a later start_server has spawned its loops. Refuted: stop  *)
(* only resets the flag and joins nothing, so a loop that is blocked in    *)
(* accept() or in get(timeout=1.0) when stop and the next start_server     *)
(* run finds running true again at its next test and carries on beside     *)
(* the new loop.                                                           *)
C38_OneLoopEach ==
    /\ [](Cardinality(LiveAcceptors) <= 1 /\ Cardinality(LiveDispatchers) <= 1)
    /\ [][/\ \A i \in DOMAIN acceptor : i < Len(acceptor) => ~Accepts(i)
          /\ \A i \in DOMAIN dispatcher : i < Len(dispatcher) => ~Takes(i)]_vars

----------------------------------------------------------------------------
\* One client registers as A, the target of the sender
SendStopScripts(c) == IF c = 1 THEN {<<RegisterA>>} ELSE {}

\* Sending during shutdown: one thread starts and stops the server while
\* another calls send_message for A, whose client registers and may close
NextSendStop ==
    \/ \E k \in Operators : caller[k].calls < MaxCalls /\ StartServerCheck(k)
    \/ StartServerSteps
    \/ \E k \in Operators : caller[k].calls < MaxCalls /\ StopSetRunning(k)
    \/ StopSteps
    \/ \E k \in Senders, target_id \in SendTargets :
           /\ caller[k].calls < MaxSendCalls
           /\ SendMessageCheckRunning(k, target_id, "command", "go")
    \/ \E k \in Senders : SendMessageCheckTarget(k)
    \/ \E k \in Senders : SendMessageSendall(k)
    \/ \E c \in Conns : \E script \in SendStopScripts(c) : ClientConnect(c, script)
    \/ \E c \in Conns : HasNextMessage(c) /\ ClientSend(c, NextMessage(c))
    \/ \E c \in Conns : ClientClose(c)
    \/ AcceptorSteps
    \/ \E i \in DOMAIN acceptor : AcceptConnectionsRaise(i)
    \/ \E c \in Conns : HandleClientRecvFirst(c)
    \/ \E c \in Conns : HandleClientRegister(c)
    \/ \E c \in Conns : HandleClientLoop(c)
    \/ \E c \in Conns : HandleClientRecv(c)
    \/ \E c \in Conns : HandleClientFinally(c)
    \/ \E c \in Conns : HandleClientDel(c)
    \/ \E c \in Conns : HandleClientClose(c)
    \/ \E i \in DOMAIN dispatcher : ProcessMessagesLoop(i)
    \/ \E i \in DOMAIN dispatcher : ProcessMessagesGet(i)

SpecSendStop == InitServer /\ [][NextSendStop]_vars

\* the send_message of k has found its target in the mapping and is about
\* to write, and the entry is gone
EntryGone(k) ==
    /\ caller[k].op = "send_message"
    /\ caller[k].pc = "sendall"
    /\ caller[k].target \notin Mapped

\* what the call of k has returned or raised once the step is done, as text
Outcome(k) == ToString(caller'[k].returned)

(* C37: send_message, called while the handler of its target ends or stop  *)
(* runs, returns True or False and raises nothing; when the entry of the   *)
(* target disappears between the test of the mapping and the write, it     *)
(* returns False and writes nothing.                                       *)
C37_SendNeverRaises ==
    [][\A k \in Senders :
          /\ (CallStep(k, "send_message") /\ caller'[k].pc = "idle")
                => Outcome(k) \in {ToString(TRUE), ToString(FALSE)}
          /\ (EntryGone(k) /\ CallStep(k, "send_message"))
                => /\ caller'[k].pc = "idle"
                   /\ Outcome(k) = ToString(FALSE)
                   /\ connections' = connections]_vars

\* stop has just cleared the mapping under a send_message that had found A
\* in it, while A's handler has not yet noticed anything
C37_Witness ==
    /\ \E k \in Senders : EntryGone(k)
    /\ \E k \in Operators : caller[k].op = "stop" /\ caller[k].pc = "close_server"
    /\ handlers[1].pc \in {"loop", "recv"}

====
